---- MODULE Spec2Model ----
(***************************************************************************)
(* A model of the CI scripts of docker-repo-ci: gitlab-repo.py,            *)
(* github-repo.py, repo_sync.py, clean_repo.py and mr_comment.py.  One run *)
(* of one script is one behaviour: Init picks the script and its inputs    *)
(* (command line, environment, config file, remote state), the actions are *)
(* the steps of the script.  Text is a sequence of one-character strings,  *)
(* so that formatting and substring tests are computed, not assumed.       *)
(***************************************************************************)
EXTENDS Integers, Sequences, FiniteSets, TLC

VARIABLES
    script,      \* which script this process runs
    pc,          \* position in the script
    exitCode,    \* "running", "0" or "1"
    error,       \* the exception that ended the run, "" if none
    args,        \* the parsed command line (argparse namespace)
    env,         \* os.environ: name -> text or None
    cfgFile,     \* the YAML config file on disk: [exists, content, reads]
    self,        \* the fields of the script's object
    loc,         \* locals of exec / main
    calls,       \* remote API requests, subprocess launches and file changes, in order
    printed,     \* lines written to stdout / stderr, in order
    running,     \* launched subprocesses that have not finished
    history,     \* the finished runs of mr_comment that came before this one
    glProjects,  \* GitLab: the projects listing, newest first
    glGroups,    \* GitLab: the result of the group search
    ghRepos,     \* GitHub: the organization's repositories
    mrOpen,      \* GitLab: iids of the open merge requests of the branch
    notes        \* GitLab: the notes of each merge request, newest first

vars == <<script, pc, exitCode, error, args, env, cfgFile, self, loc, calls,
          printed, running, history, glProjects, glGroups, ghRepos, mrOpen, notes>>

remoteVars == <<glProjects, glGroups, ghRepos, mrOpen, notes>>
inputVars == <<script, args, env>>

----------------------------------------------------------------------------
(* Bounds *)

\* the longest remote listing (projects, mirrors, repositories, notes)
MaxItems == 2
\* the page size of the remote listings (20 on the real services)
PerPage == 1

----------------------------------------------------------------------------
(* Text *)

\* Python's None, for a value that is text otherwise
None == <<"None">>

Min(S) == CHOOSE m \in S : \A n \in S : m <= n

RECURSIVE Concat(_)
Concat(ss) == IF ss = <<>> THEN <<>> ELSE Head(ss) \o Concat(Tail(ss))

\* Python's `t in s` on strings
Contains(s, t) ==
    \E i \in 0..(Len(s) - Len(t)) : SubSeq(s, i + 1, i + Len(t)) = t

\* Python's s.find(t, start) + 1: the first position of t in s at or after
\* from, 0 when there is none
Find(s, t, from) ==
    LET hits == {i \in from..(Len(s) - Len(t) + 1) : SubSeq(s, i, i + Len(t) - 1) = t}
    IN IF hits = {} THEN 0 ELSE Min(hits)

\* bool(v) of a flag: argparse's BooleanOptionalAction gives True, False or None,
\* a YAML boolean gives True or False
Truthy(v) == v = "True"

Flags == {"True", "False", "None"}

----------------------------------------------------------------------------
(* Pagination of the remote listings *)

NumPages(items) == (Len(items) + PerPage - 1) \div PerPage

Page(items, k) ==
    SubSeq(items, (k - 1) * PerPage + 1,
           IF k * PerPage < Len(items) THEN k * PerPage ELSE Len(items))

\* python-gitlab's list(get_all=True) and PyGithub's PaginatedList: every page
RECURSIVE ListAll(_, _)
ListAll(items, k) ==
    IF k > NumPages(items) THEN <<>> ELSE Page(items, k) \o ListAll(items, k + 1)

\* one GET of a listing without page parameters: the first page
ListOnce(items) == Page(items, 1)

----------------------------------------------------------------------------
(* Helpers shared by gitlab-repo.py, github-repo.py and repo_sync.py *)

set_var_conf(var, key, config) ==
    IF key \in DOMAIN config THEN config[key] ELSE var

set_var_env(var, name) ==
    IF var = None THEN env[name] ELSE var

\* os.environ[name] raises KeyError
EnvKeyError(var, name) == var = None /\ env[name] = None

Crash(exc) ==
    /\ pc' = "crashed"
    /\ error' = exc
    /\ exitCode' = "1"

Call(op, arg) == [op |-> op, arg |-> arg]

\* loc after a locator returned handle for resource r
Located(r, handle) ==
    [loc EXCEPT !.located = @ \cup {r},
                !.found = IF handle # 0 THEN @ \cup {r} ELSE @]

\* loc at the creation test of resource r, whose handle is `handle`
Tested(r, handle) ==
    [loc EXCEPT !.absent = IF handle = 0 THEN @ \cup {r} ELSE @]

\* the locals of exec and main before the first step; reports_exists is
\* whether the reports directory is there when clean_repo starts.  located
\* and found are the resources a locator was run for and returned, absent
\* those whose handle was None at the test that decides on their creation,
\* failed the requests of mr_comment that failed, before the notes as the
\* run of mr_comment found them.
FreshLoc ==
    [repo |-> 0, mirror |-> 0, located |-> {}, found |-> {}, absent |-> {},
     created |-> {}, step |-> 0,
     exclusion_files |-> <<>>, reports_exists |-> FALSE,
     existing_note_id |-> 0, failed |-> {}, before |-> <<>>,
     lookups |-> <<>>, targets |-> {}]


Ops(op) == {i \in 1..Len(calls) : calls[i].op = op}
Count(op) == Cardinality(Ops(op))

----------------------------------------------------------------------------
(* gitlab-repo.py *)

GithubDomain == <<"g","i","t","h","u","b",".","c","o","m">>

gh_r_url_final(gh_user, gh_pass, org_name, github_repo_name) ==
    Concat(<<<<"h","t","t","p","s",":","/","/">>, gh_user, <<":">>, gh_pass, <<"@">>, GithubDomain,
             <<"/">>, org_name, <<"/">>, github_repo_name, <<".","g","i","t">>>>)

gh_r_url_mask(org_name, github_repo_name) ==
    Concat(<<<<"h","t","t","p","s",":","/","/","*","*","*","*","*",":","*","*","*","*","*","@">>, GithubDomain,
             <<"/">>, org_name, <<"/">>, github_repo_name, <<".","g","i","t">>>>)

\* GitLab stores a remote mirror's URL and lists it with the user and the
\* password replaced by five asterisks each
MirrorListedUrl(url) ==
    LET s == Find(url, <<":","/","/">>, 1)
        a == IF s = 0 THEN 0 ELSE Find(url, <<"@">>, s + 3)
    IN IF a = 0 THEN url
       ELSE SubSeq(url, 1, s + 2) \o <<"*","*","*","*","*",":","*","*","*","*","*">> \o SubSeq(url, a, Len(url))

GL_EnvNames ==
    <<"CI_SERVER_URL", "CI_SERVER_TOKEN", "GL_DEFAULT_GROUP",
      "GITHUB_USER", "GITHUB_PASS", "GITHUB_ORG">>

GL_Construct ==
    /\ script = "gitlab-repo" /\ pc = "init"
    /\ cfgFile' = [cfgFile EXCEPT !.reads = @ + 1]
    /\ LET config == cfgFile.content
       IN IF \E i \in 1..Len(GL_EnvNames) :
                 EnvKeyError(args[GL_EnvNames[i]], GL_EnvNames[i])
          THEN /\ Crash("KeyError")
               /\ UNCHANGED self
          ELSE /\ self' =
                    [config_file |-> args.config_file,
                     repo_path |-> args.repo_path,
                     dry_run |-> args.dry_run,
                     repo_local_name |-> config["repo_local_name"],
                     ci_server_url |-> set_var_env(args["CI_SERVER_URL"], "CI_SERVER_URL"),
                     server_token |-> set_var_env(args["CI_SERVER_TOKEN"], "CI_SERVER_TOKEN"),
                     gitlab_group |-> set_var_env(args["GL_DEFAULT_GROUP"], "GL_DEFAULT_GROUP"),
                     gitlab_sync_repo_name |->
                         set_var_conf(config["repo_local_name"], "gitlab_sync_repo_name", config),
                     gitlab_sync_repo_desc |->
                         set_var_conf(<<>>, "gitlab_sync_repo_desc", config),
                     gl_c_repo |-> set_var_conf(args.create_repo, "gitlab_create_repo", config),
                     gl_c_mirr |-> set_var_conf(args.create_mirror, "gitlab_create_mirror", config),
                     github_repo_name |-> config["github_repo_name"],
                     gh_r_url_final |->
                         gh_r_url_final(set_var_env(args["GITHUB_USER"], "GITHUB_USER"),
                                        set_var_env(args["GITHUB_PASS"], "GITHUB_PASS"),
                                        set_var_env(args["GITHUB_ORG"], "GITHUB_ORG"),
                                        config["github_repo_name"]),
                     gh_r_url_mask |->
                         gh_r_url_mask(set_var_env(args["GITHUB_ORG"], "GITHUB_ORG"),
                                       config["github_repo_name"])]
               /\ pc' = "exec"
               /\ UNCHANGED <<error, exitCode>>
    /\ UNCHANGED <<inputVars, loc, calls, printed, running, history, remoteVars>>

ScriptPath == <<"/","a","s","s","e","t","s","/","s","c","r","i","p","t",".","p","y">>

GL_Summary ==
    << <<"-","-","-","-","-","-","-","-","-","-","-","-","-","-","-","-","-","-","-","-","-","-","-","-","-","-","-","-","-","-","-","-","-","-","-","-","-","-","-","-","-","-","-","-","-","-","-","-","-","-","-">>,
       <<"G","i","t","l","a","b"," ","r","e","p","o",":"," "," "," "," ">> \o self.repo_local_name,
       <<"G","i","t","L","a","b"," ","g","r","o","u","p",":"," "," "," ">> \o self.gitlab_group,
       <<>>,
       <<"R","e","p","o"," ","l","o","c","a","t","e","d",":"," "," "," ">> \o self.repo_path,
       <<"C","o","n","f","i","g"," ","f","i","l","e",":"," "," "," "," ">> \o self.config_file,
       <<"R","u","n","n","i","n","g"," ","f","r","o","m",":"," "," "," ">> \o ScriptPath,
       <<>>,
       <<"S","e","r","v","e","r"," ","h","o","s","t",":"," "," "," "," ">> \o self.ci_server_url,
       <<"-","-","-","-","-","-","-","-","-","-","-","-","-","-","-","-","-","-","-","-","-","-","-","-","-","-","-","-","-","-","-","-","-","-","-","-","-","-","-","-","-","-","-","-","-","-","-","-","-","-","-">>,
       <<"R","e","p","o","s","i","t","o","r","y",":"," "," "," "," ">> \o self.repo_local_name >>

\* the first project of the whole listing with that name, 0 for None
GL_get_repo(name) ==
    LET all == ListAll(glProjects, 1)
        hit == {i \in 1..Len(all) : all[i].name = name}
    IN IF hit = {} THEN 0 ELSE all[Min(hit)].id

\* exec, to the end of get_repo
GL_GetRepo ==
    /\ script = "gitlab-repo" /\ pc = "exec"
    /\ printed' = printed \o GL_Summary
                     \o << <<"\t","G","e","t"," ","r","e","p","o"," ">> \o self.gitlab_sync_repo_name >>
    /\ calls' = Append(calls, Call("projects.list", <<>>))
    /\ \E ok \in BOOLEAN :
          IF ok
          THEN /\ loc' = [Located("repo", GL_get_repo(self.gitlab_sync_repo_name))
                              EXCEPT !.repo = GL_get_repo(self.gitlab_sync_repo_name)]
               /\ pc' = "repo_step"
               /\ UNCHANGED <<error, exitCode>>
          ELSE /\ Crash("GitlabError")
               /\ UNCHANGED loc
    /\ UNCHANGED <<inputVars, cfgFile, self, running, history, remoteVars>>

\* the test without its `repo is None`
ShouldCreateRepo_IgnoringFound(repo, create_enabled, dry_run) ==
    Truthy(create_enabled) /\ ~Truthy(dry_run)

\* line 112 (and github-repo.py line 95)
ShouldCreateRepo(repo, create_enabled, dry_run) ==
    (repo = 0 /\ Truthy(create_enabled)) /\ ~Truthy(dry_run)

NewId(items) == Len(items) + 1

GL_SkipRepoLines ==
    (IF Truthy(self.dry_run) THEN << <<"\t","R","e","p","o"," ","c","r","e","a","t","e"," ","s","k","i","p","p","e","d",":"," ","d","r","y","-","r","u","n">> >> ELSE <<>>)
    \o (IF ~Truthy(self.gl_c_repo)
        THEN << <<"\t","R","e","p","o"," ","c","r","e","a","t","e"," ","s","k","i","p","p","e","d",":"," ","c","r","e","a","t","i","o","n"," ","d","i","s","a","b","l","e","d">> >> ELSE <<>>)
    \o (IF loc.repo # 0 THEN << <<"\t","R","e","p","o"," ","a","l","r","e","a","d","y"," ","e","x","i","s","t","s">> >> ELSE <<>>)

\* exec, lines 112-123, with create_repo
GL_RepoStep ==
    /\ script = "gitlab-repo" /\ pc = "repo_step"
    /\ IF ShouldCreateRepo(loc.repo, self.gl_c_repo, self.dry_run)
       THEN \E searched \in BOOLEAN, ok \in BOOLEAN :
              LET line == Concat(<< <<"\t","C","r","e","a","t","e"," ","r","e","p","o"," ">>, self.gitlab_group, <<" ","/"," ">>,
                                    self.gitlab_sync_repo_name >>)
                  search == Call("groups.list", self.gitlab_group)
              IN CASE ~searched ->
                      \* the group search failed
                      /\ printed' = Append(printed, line)
                      /\ calls' = Append(calls, search)
                      /\ Crash("GitlabError")
                      /\ loc' = Tested("repo", loc.repo)
                      /\ UNCHANGED glProjects
                   [] searched /\ ~glGroups ->
                      \* [0] of an empty list
                      /\ printed' = Append(printed, line)
                      /\ calls' = Append(calls, search)
                      /\ Crash("IndexError")
                      /\ loc' = Tested("repo", loc.repo)
                      /\ UNCHANGED glProjects
                   [] searched /\ glGroups /\ ~ok ->
                      \* the service refused the creation
                      /\ printed' = Append(printed, line)
                      /\ calls' = calls \o << search,
                              Call("projects.create", self.gitlab_sync_repo_name) >>
                      /\ Crash("GitlabError")
                      /\ loc' = Tested("repo", loc.repo)
                      /\ UNCHANGED glProjects
                   [] OTHER ->
                      /\ printed' = printed \o << line, <<"\t","\t","y">> >>
                      /\ calls' = calls \o << search,
                              Call("projects.create", self.gitlab_sync_repo_name) >>
                      /\ glProjects' =
                            << [id |-> NewId(glProjects),
                                name |-> self.gitlab_sync_repo_name,
                                mirrors |-> <<>>] >> \o glProjects
                      /\ loc' = [Tested("repo", loc.repo) EXCEPT
                                      !.repo = NewId(glProjects),
                                      !.created = @ \cup {"repo"}]
                      /\ pc' = "mirror_get"
                      /\ UNCHANGED <<error, exitCode>>
       ELSE /\ printed' = printed \o GL_SkipRepoLines
            /\ pc' = "mirror_get"
            /\ loc' = Tested("repo", loc.repo)
            /\ UNCHANGED <<calls, glProjects, error, exitCode>>
    /\ UNCHANGED <<inputVars, cfgFile, self, running, history,
                   glGroups, ghRepos, mrOpen, notes>>

Project(id) == CHOOSE p \in {glProjects[i] : i \in 1..Len(glProjects)} : p.id = id

\* get_mirror comparing with the URL the mirror was created with
GL_get_mirror_ByRealUrl(repo) ==
    LET all == ListAll(Project(repo).mirrors, 1)
        hit == {i \in 1..Len(all) : all[i] = self.gh_r_url_final}
    IN IF hit = {} THEN 0 ELSE Min(hit)

\* the first mirror of the whole listing whose listed URL is the masked URL,
\* 0 for None
GL_get_mirror(repo) ==
    LET all == ListAll(Project(repo).mirrors, 1)
        hit == {i \in 1..Len(all) : all[i] = self.gh_r_url_mask}
    IN IF hit = {} THEN 0 ELSE Min(hit)

\* exec, lines 126-130, with get_mirror
GL_GetMirror ==
    /\ script = "gitlab-repo" /\ pc = "mirror_get"
    /\ IF loc.repo # 0
       THEN /\ printed' = printed \o << <<"M","i","r","r","o","r"," ","i","n",":"," "," "," "," "," ">> \o self.repo_local_name,
                                        <<"\t","G","e","t"," ","r","e","p","o"," ","m","i","r","r","o","r"," ">> \o self.gh_r_url_mask >>
            /\ calls' = Append(calls, Call("remote_mirrors.list", <<>>))
            /\ \E ok \in BOOLEAN :
                  IF ok
                  THEN /\ loc' = [Located("mirror", GL_get_mirror(loc.repo))
                                      EXCEPT !.mirror = GL_get_mirror(loc.repo)]
                       /\ pc' = "mirror_step"
                       /\ UNCHANGED <<error, exitCode>>
                  ELSE /\ Crash("GitlabError")
                       /\ UNCHANGED loc
       ELSE /\ printed' = Append(printed, <<"M","i","r","r","o","r"," ","i","n",":"," "," "," "," "," ">> \o self.repo_local_name)
            /\ loc' = [loc EXCEPT !.mirror = 0]
            /\ pc' = "mirror_step"
            /\ UNCHANGED <<calls, error, exitCode>>
    /\ UNCHANGED <<inputVars, cfgFile, self, running, history, remoteVars>>

\* the test without its `not self.dry_run`
ShouldCreateMirror_IgnoringDryRun(repo, mirror, create_enabled, dry_run) ==
    (repo # 0 /\ mirror = 0) /\ Truthy(create_enabled)

\* line 131
ShouldCreateMirror(repo, mirror, create_enabled, dry_run) ==
    ((repo # 0 /\ mirror = 0) /\ Truthy(create_enabled)) /\ ~Truthy(dry_run)

GL_SkipMirrorLines ==
    (IF Truthy(self.dry_run) THEN << <<"\t","M","i","r","r","o","r"," ","c","r","e","a","t","e"," ","s","k","i","p","p","e","d",":"," ","d","r","y","-","r","u","n">> >> ELSE <<>>)
    \o (IF ~Truthy(self.gl_c_mirr)
        THEN << <<"\t","M","i","r","r","o","r"," ","c","r","e","a","t","e"," ","s","k","i","p","p","e","d",":"," ","c","r","e","a","t","i","o","n"," ","d","i","s","a","b","l","e","d">> >> ELSE <<>>)
    \o (IF loc.mirror # 0 THEN << <<"\t","M","i","r","r","o","r"," ","a","l","r","e","a","d","y"," ","c","r","e","a","t","e","d">> >> ELSE <<>>)

AddMirror(projects, id, url) ==
    [i \in 1..Len(projects) |->
        IF projects[i].id = id
        THEN [projects[i] EXCEPT !.mirrors = <<url>> \o @]
        ELSE projects[i]]

\* exec, lines 131-139, with create_mirror
GL_MirrorStep ==
    /\ script = "gitlab-repo" /\ pc = "mirror_step"
    /\ IF ShouldCreateMirror(loc.repo, loc.mirror, self.gl_c_mirr, self.dry_run)
       THEN \E ok \in BOOLEAN :
              LET line == Concat(<< <<"\t","C","r","e","a","t","e"," ","m","i","r","r","o","r"," ">>, self.gh_r_url_mask,
                                    <<" ","i","n"," ","r","e","p","o"," ">>, Project(loc.repo).name >>)
              IN /\ calls' = Append(calls, Call("remote_mirrors.create", self.gh_r_url_final))
                 /\ IF ok
                    THEN /\ printed' = printed \o << line, <<"\t","\t","y">> >>
                         /\ glProjects' = AddMirror(glProjects, loc.repo,
                                                    MirrorListedUrl(self.gh_r_url_final))
                         /\ loc' = [Tested("mirror", loc.mirror) EXCEPT
                                         !.mirror = 1,
                                         !.created = @ \cup {"mirror"}]
                         /\ pc' = "done"
                         /\ exitCode' = "0"
                         /\ UNCHANGED error
                    ELSE /\ printed' = Append(printed, line)
                         /\ Crash("GitlabError")
                         /\ loc' = Tested("mirror", loc.mirror)
                         /\ UNCHANGED glProjects
       ELSE /\ printed' = printed \o GL_SkipMirrorLines
            /\ pc' = "done"
            /\ exitCode' = "0"
            /\ loc' = Tested("mirror", loc.mirror)
            /\ UNCHANGED <<calls, glProjects, error>>
    /\ UNCHANGED <<inputVars, cfgFile, self, running, history,
                   glGroups, ghRepos, mrOpen, notes>>

\* the pipeline runs gitlab-repo once more after a run that created
\* something: a new process with the same command line, environment and
\* config file, against GitLab as the first run left it
GL_Rerun ==
    /\ script = "gitlab-repo" /\ pc \in {"done", "crashed"} /\ history = <<>>
    /\ loc.created # {}
    /\ history' = Append(history,
                         [args |-> args, exitCode |-> exitCode, error |-> error,
                          calls |-> calls, created |-> loc.created])
    /\ pc' = "init"
    /\ exitCode' = "running"
    /\ error' = ""
    /\ calls' = <<>>
    /\ printed' = <<>>
    /\ loc' = [FreshLoc EXCEPT !.before = loc.before]
    /\ self' = [mr_iid |-> 0]
    /\ cfgFile' = [cfgFile EXCEPT !.reads = 0]
    /\ UNCHANGED <<inputVars, running, remoteVars>>

GitlabRepo == GL_Construct \/ GL_GetRepo \/ GL_RepoStep \/ GL_GetMirror \/ GL_MirrorStep \/ GL_Rerun

----------------------------------------------------------------------------
(* github-repo.py *)

GH_EnvNames == <<"GITHUB_USER", "GITHUB_PASS", "GITHUB_ORG">>

GH_Construct ==
    /\ script = "github-repo" /\ pc = "init"
    /\ cfgFile' = [cfgFile EXCEPT !.reads = @ + 1]
    /\ LET config == cfgFile.content
       IN IF \E i \in 1..Len(GH_EnvNames) :
                 EnvKeyError(args[GH_EnvNames[i]], GH_EnvNames[i])
          THEN /\ Crash("KeyError")
               /\ UNCHANGED self
          ELSE /\ self' =
                    [config_file |-> args.config_file,
                     repo_path |-> args.repo_path,
                     dry_run |-> args.dry_run,
                     repo_local_name |-> config["repo_local_name"],
                     gh_pass |-> set_var_env(args["GITHUB_PASS"], "GITHUB_PASS"),
                     github_org_name |-> set_var_env(args["GITHUB_ORG"], "GITHUB_ORG"),
                     github_repo_name |-> config["github_repo_name"],
                     github_repo_description |->
                         set_var_conf(<<>>, "gitlab_sync_repo_desc", config),
                     gh_c_repo |-> set_var_conf(args.create_repo, "github_create_repo", config)]
               /\ pc' = "exec"
               /\ UNCHANGED <<error, exitCode>>
    /\ UNCHANGED <<inputVars, loc, calls, printed, running, history, remoteVars>>

GH_Summary ==
    << <<"-","-","-","-","-","-","-","-","-","-","-","-","-","-","-","-","-","-","-","-","-","-","-","-","-","-","-","-","-","-","-","-","-","-","-","-","-","-","-","-","-","-","-","-","-","-","-","-","-","-","-">>,
       <<"G","i","t","l","a","b"," ","r","e","p","o",":"," "," "," "," ">> \o self.repo_local_name,
       <<"G","i","t","H","u","b"," ","r","e","p","o",":"," "," "," "," ">> \o self.github_repo_name,
       <<>>,
       <<"R","e","p","o"," ","l","o","c","a","t","e","d",":"," "," "," ">> \o self.repo_path,
       <<"C","o","n","f","i","g"," ","f","i","l","e",":"," "," "," "," ">> \o self.config_file,
       <<"R","u","n","n","i","n","g"," ","f","r","o","m",":"," "," "," ">> \o ScriptPath,
       <<>>,
       <<"-","-","-","-","-","-","-","-","-","-","-","-","-","-","-","-","-","-","-","-","-","-","-","-","-","-","-","-","-","-","-","-","-","-","-","-","-","-","-","-","-","-","-","-","-","-","-","-","-","-","-">>,
       <<"R","e","p","o","s","i","t","o","r","y",":"," "," "," "," ">> \o self.repo_local_name >>

\* the first repository of the whole listing with that name, 0 for None
GH_get_repo(name) ==
    LET all == ListAll(ghRepos, 1)
        hit == {i \in 1..Len(all) : all[i].name = name}
    IN IF hit = {} THEN 0 ELSE all[Min(hit)].id

\* exec, lines 79-93: get_org and get_repo
GH_GetRepo ==
    /\ script = "github-repo" /\ pc = "exec"
    /\ \E org_ok \in BOOLEAN, ok \in BOOLEAN :
          IF ~org_ok
          THEN /\ printed' = printed \o GH_Summary
                                \o << <<"\t","G","e","t"," ","o","r","g"," ">> \o self.github_org_name >>
               /\ calls' = Append(calls, Call("get_organization", self.github_org_name))
               /\ Crash("GithubException")
               /\ UNCHANGED loc
          ELSE /\ printed' = printed \o GH_Summary
                                \o << <<"\t","G","e","t"," ","o","r","g"," ">> \o self.github_org_name,
                                      <<"\t","G","e","t"," ","r","e","p","o"," ">> \o self.github_repo_name >>
               /\ calls' = calls \o << Call("get_organization", self.github_org_name),
                                       Call("org.get_repos", <<>>) >>
               /\ IF ok
                  THEN /\ loc' = [Located("repo", GH_get_repo(self.github_repo_name))
                                      EXCEPT !.repo = GH_get_repo(self.github_repo_name)]
                       /\ pc' = "repo_step"
                       /\ UNCHANGED <<error, exitCode>>
                  ELSE /\ Crash("GithubException")
                       /\ UNCHANGED loc
    /\ UNCHANGED <<inputVars, cfgFile, self, running, history, remoteVars>>

GH_SkipRepoLines ==
    (IF Truthy(self.dry_run) THEN << <<"\t","R","e","p","o"," ","c","r","e","a","t","e"," ","s","k","i","p","p","e","d",":"," ","d","r","y","-","r","u","n">> >> ELSE <<>>)
    \o (IF ~Truthy(self.gh_c_repo)
        THEN << <<"\t","R","e","p","o"," ","c","r","e","a","t","e"," ","s","k","i","p","p","e","d",":"," ","c","r","e","a","t","i","o","n"," ","d","i","s","a","b","l","e","d">> >> ELSE <<>>)
    \o (IF loc.repo # 0 THEN << <<"\t","R","e","p","o"," ","a","l","r","e","a","d","y"," ","e","x","i","s","t","s">> >> ELSE <<>>)

\* exec, lines 95-103, with create_repo
GH_RepoStep ==
    /\ script = "github-repo" /\ pc = "repo_step"
    /\ IF ShouldCreateRepo(loc.repo, self.gh_c_repo, self.dry_run)
       THEN \E ok \in BOOLEAN :
              LET line == <<"\t","C","r","e","a","t","e"," ","r","e","p","o"," ">> \o self.github_repo_name
              IN /\ calls' = Append(calls, Call("org.create_repo", self.github_repo_name))
                 /\ IF ok
                    THEN /\ printed' = printed \o << line, <<"\t","\t","y">> >>
                         /\ ghRepos' = << [id |-> NewId(ghRepos),
                                           name |-> self.github_repo_name,
                                           protected |-> FALSE] >> \o ghRepos
                         /\ loc' = [Tested("repo", loc.repo) EXCEPT
                                         !.repo = NewId(ghRepos),
                                         !.created = @ \cup {"repo"}]
                         /\ pc' = "protect"
                         /\ UNCHANGED <<error, exitCode>>
                    ELSE /\ printed' = Append(printed, line)
                         /\ Crash("GithubException")
                         /\ loc' = Tested("repo", loc.repo)
                         /\ UNCHANGED ghRepos
       ELSE /\ printed' = printed \o GH_SkipRepoLines
            /\ pc' = "protect"
            /\ loc' = Tested("repo", loc.repo)
            /\ UNCHANGED <<calls, ghRepos, error, exitCode>>
    /\ UNCHANGED <<inputVars, cfgFile, self, running, history,
                   glProjects, glGroups, mrOpen, notes>>

Protect(repos, id) ==
    [i \in 1..Len(repos) |->
        IF repos[i].id = id THEN [repos[i] EXCEPT !.protected = TRUE] ELSE repos[i]]

\* exec, lines 105-123: get_branch and edit_protection, whatever dry_run is
GH_Protect ==
    /\ script = "github-repo" /\ pc = "protect"
    /\ printed' = Append(printed, <<"B","r","a","n","c","h"," ","r","u","l","e","s","e","t"," ","e","n","f","o","r","c","e","m","e","n","t">>)
    /\ IF loc.repo = 0
       THEN \* None has no get_branch
            /\ Crash("AttributeError")
            /\ UNCHANGED <<calls, ghRepos>>
       ELSE \E branch_ok \in BOOLEAN, ok \in BOOLEAN :
              IF ~branch_ok
              THEN /\ calls' = Append(calls, Call("repo.get_branch", <<"m","a","i","n">>))
                   /\ Crash("GithubException")
                   /\ UNCHANGED ghRepos
              ELSE /\ calls' = calls \o << Call("repo.get_branch", <<"m","a","i","n">>),
                                           Call("branch.edit_protection", <<"m","a","i","n">>) >>
                   /\ IF ok
                      THEN /\ ghRepos' = Protect(ghRepos, loc.repo)
                           /\ pc' = "done"
                           /\ exitCode' = "0"
                           /\ UNCHANGED error
                      ELSE /\ Crash("GithubException")
                           /\ UNCHANGED ghRepos
    /\ UNCHANGED <<inputVars, cfgFile, self, loc, running, history,
                   glProjects, glGroups, mrOpen, notes>>

GithubRepo == GH_Construct \/ GH_GetRepo \/ GH_RepoStep \/ GH_Protect

----------------------------------------------------------------------------
(* repo_sync.py *)

\* urllib.parse.urlparse: the scheme before "://" and the network location up
\* to the next "/", "?" or "#"
urlparse(url) ==
    LET s == Find(url, <<":","/","/">>, 1)
        rest == IF s = 0 THEN <<>> ELSE SubSeq(url, s + 3, Len(url))
        stop == {i \in 1..Len(rest) : rest[i] \in {"/", "?", "#"}}
    IN [scheme |-> IF s = 0 THEN <<>> ELSE SubSeq(url, 1, s - 1),
        netloc |-> IF stop = {} THEN rest ELSE SubSeq(rest, 1, Min(stop) - 1)]

gl_url(o, server_token, gitlab_group, gitlab_sync_repo_name) ==
    Concat(<<o.scheme, <<":","/","/","o","a","u","t","h","2",":">>, server_token, <<"@">>, o.netloc, <<"/">>,
             gitlab_group, <<"/">>, gitlab_sync_repo_name, <<".","g","i","t">>>>)

gl_url_mask(o, gitlab_group, gitlab_sync_repo_name) ==
    Concat(<<o.scheme, <<":","/","/","o","a","u","t","h","2",":","*","*","*","*","*","*","@">>, o.netloc, <<"/">>,
             gitlab_group, <<"/">>, gitlab_sync_repo_name, <<".","g","i","t">>>>)

gl_ori_url(o, server_token, project_path) ==
    Concat(<<o.scheme, <<":","/","/","o","a","u","t","h","2",":">>, server_token, <<"@">>, o.netloc, <<"/">>,
             project_path>>)

SY_EnvNames ==
    <<"CI_SERVER_URL", "CI_SERVER_TOKEN", "GL_DEFAULT_GROUP",
      "GL_USER_NAME", "GL_USER_MAIL">>

\* __init__: the config file is read and removed before any value is resolved
SY_Construct ==
    /\ script = "repo_sync" /\ pc = "init"
    /\ cfgFile' = [cfgFile EXCEPT !.reads = @ + 1, !.exists = FALSE]
    /\ calls' = Append(calls, Call("os.remove", args.repo_path \o <<"/">> \o args.config_file))
    /\ LET config == cfgFile.content
           url == set_var_env(args["CI_SERVER_URL"], "CI_SERVER_URL")
           token == set_var_env(args["CI_SERVER_TOKEN"], "CI_SERVER_TOKEN")
           group == set_var_env(args["GL_DEFAULT_GROUP"], "GL_DEFAULT_GROUP")
           name == set_var_conf(config["repo_local_name"], "gitlab_sync_repo_name", config)
       IN IF \/ \E i \in 1..Len(SY_EnvNames) :
                    EnvKeyError(args[SY_EnvNames[i]], SY_EnvNames[i])
             \/ env["CI_PROJECT_PATH"] = None
          THEN /\ Crash("KeyError")
               /\ UNCHANGED self
          ELSE /\ self' =
                    [config_file |-> args.config_file,
                     repo_path |-> args.repo_path,
                     dry_run |-> args.dry_run,
                     repo_local_name |-> config["repo_local_name"],
                     ci_server_url |-> url,
                     gitlab_group |-> group,
                     gitlab_user_name |-> set_var_env(args["GL_USER_NAME"], "GL_USER_NAME"),
                     gitlab_user_mail |-> set_var_env(args["GL_USER_MAIL"], "GL_USER_MAIL"),
                     gitlab_sync_repo_name |-> name,
                     gl_url |-> gl_url(urlparse(url), token, group, name),
                     gl_url_mask |-> gl_url_mask(urlparse(url), group, name),
                     gl_ori_url |-> gl_ori_url(urlparse(url), token, env["CI_PROJECT_PATH"]),
                     pwd |-> args.repo_path]
               /\ pc' = "exec"
               /\ UNCHANGED <<error, exitCode>>
    /\ UNCHANGED <<inputVars, loc, printed, running, history, remoteVars>>

\* the summary with the URL that git is given
SY_Summary_RealUrl ==
    << <<"-","-","-","-","-","-","-","-","-","-","-","-","-","-","-","-","-","-","-","-","-","-","-","-","-","-","-","-","-","-","-","-","-","-","-","-","-","-","-","-","-","-","-","-","-","-","-","-","-","-","-">>,
       <<"G","i","t","l","a","b"," ","r","e","p","o",":"," "," "," "," ">> \o self.repo_local_name,
       <<"G","i","t","L","a","b"," ","g","r","o","u","p",":"," "," "," ">> \o self.gitlab_group,
       <<"G","i","t"," ","u","r","l",":"," "," "," "," "," "," "," "," ">> \o self.gl_url,
       <<>>,
       <<"R","e","p","o"," ","l","o","c","a","t","e","d",":"," "," "," ">> \o self.pwd,
       <<"C","o","n","f","i","g"," ","f","i","l","e",":"," "," "," "," ">> \o self.config_file,
       <<"R","u","n","n","i","n","g"," ","f","r","o","m",":"," "," "," ">> \o ScriptPath,
       <<>>,
       <<"S","e","r","v","e","r"," ","h","o","s","t",":"," "," "," "," ">> \o self.ci_server_url,
       <<"-","-","-","-","-","-","-","-","-","-","-","-","-","-","-","-","-","-","-","-","-","-","-","-","-","-","-","-","-","-","-","-","-","-","-","-","-","-","-","-","-","-","-","-","-","-","-","-","-","-","-">>,
       <<"R","e","p","o","s","i","t","o","r","y",":"," "," "," "," ">> \o self.repo_local_name >>

\* exec, lines 87-99: the lines printed before the first git command
SY_Summary ==
    << <<"-","-","-","-","-","-","-","-","-","-","-","-","-","-","-","-","-","-","-","-","-","-","-","-","-","-","-","-","-","-","-","-","-","-","-","-","-","-","-","-","-","-","-","-","-","-","-","-","-","-","-">>,
       <<"G","i","t","l","a","b"," ","r","e","p","o",":"," "," "," "," ">> \o self.repo_local_name,
       <<"G","i","t","L","a","b"," ","g","r","o","u","p",":"," "," "," ">> \o self.gitlab_group,
       <<"G","i","t"," ","u","r","l",":"," "," "," "," "," "," "," "," ">> \o self.gl_url_mask,
       <<>>,
       <<"R","e","p","o"," ","l","o","c","a","t","e","d",":"," "," "," ">> \o self.pwd,
       <<"C","o","n","f","i","g"," ","f","i","l","e",":"," "," "," "," ">> \o self.config_file,
       <<"R","u","n","n","i","n","g"," ","f","r","o","m",":"," "," "," ">> \o ScriptPath,
       <<>>,
       <<"S","e","r","v","e","r"," ","h","o","s","t",":"," "," "," "," ">> \o self.ci_server_url,
       <<"-","-","-","-","-","-","-","-","-","-","-","-","-","-","-","-","-","-","-","-","-","-","-","-","-","-","-","-","-","-","-","-","-","-","-","-","-","-","-","-","-","-","-","-","-","-","-","-","-","-","-">>,
       <<"R","e","p","o","s","i","t","o","r","y",":"," "," "," "," ">> \o self.repo_local_name >>

\* the subprocess.Popen calls of exec, in order: what is printed before the
\* launch, the command and the argument that varies
SY_Steps ==
    << [say |-> << <<"\t","S","a","f","e"," ","s","p","a","c","e">> >>, op |-> "git config safe.directory", arg |-> self.pwd],
       [say |-> << <<"\t","s","t","a","t","u","s">> >>, op |-> "git status", arg |-> <<>>],
       [say |-> << <<"\t","s","e","t"," ","u","s","e","r">> >>, op |-> "git config user.email",
        arg |-> self.gitlab_user_mail],
       [say |-> <<>>, op |-> "git config user.name", arg |-> self.gitlab_user_name],
       [say |-> << <<"\t","c","o","m","m","i","t">> >>, op |-> "git add", arg |-> <<".">>],
       [say |-> <<>>, op |-> "git commit", arg |-> <<"s","y","n","c","e","d"," ","b","y"," ","c","i"," ","b","o","t">>],
       [say |-> <<>>, op |-> "git fetch", arg |-> self.gl_ori_url],
       [say |-> <<>>, op |-> "git init", arg |-> <<>>],
       [say |-> << <<"\t","r","e","m","o","t","e"," ","a","d","d">> >>, op |-> "git remote add", arg |-> self.gl_url],
       [say |-> << <<"\t","p","u","s","h">> >>, op |-> "git push", arg |-> <<"H","E","A","D",":","r","e","f","s","/","h","e","a","d","s","/","m","a","i","n">>] >>

\* exec, lines 87-99
SY_Exec ==
    /\ script = "repo_sync" /\ pc = "exec"
    /\ printed' = printed \o SY_Summary
    /\ loc' = [loc EXCEPT !.step = 1]
    /\ pc' = "steps"
    /\ UNCHANGED <<inputVars, cfgFile, self, calls, running, history, remoteVars,
                   error, exitCode>>

\* one Popen of exec and the sleep after it: the child is started and not
\* waited for; dry_run is not read
SY_Launch ==
    /\ script = "repo_sync" /\ pc = "steps"
    /\ LET s == SY_Steps[loc.step]
       IN /\ printed' = printed \o s.say
          /\ calls' = Append(calls, Call(s.op, s.arg))
          /\ running' = running \cup {s.op}
    /\ IF loc.step = Len(SY_Steps)
       THEN /\ pc' = "done"
            /\ exitCode' = "0"
            /\ UNCHANGED loc
       ELSE /\ loc' = [loc EXCEPT !.step = @ + 1]
            /\ UNCHANGED <<pc, exitCode>>
    /\ UNCHANGED <<inputVars, cfgFile, self, history, remoteVars, error>>

\* a launched git process finishes, at a time of its own
SY_ChildExit ==
    /\ script = "repo_sync"
    /\ \E c \in running : running' = running \ {c}
    /\ UNCHANGED <<inputVars, pc, exitCode, error, cfgFile, self, loc, calls,
                   printed, history, remoteVars>>

RepoSync == SY_Construct \/ SY_Exec \/ SY_Launch \/ SY_ChildExit

----------------------------------------------------------------------------
(* clean_repo.py *)

\* __init__ and exec to line 54: nothing here reads dry_run
CL_Start ==
    /\ script = "clean_repo" /\ pc = "init"
    /\ cfgFile' = [cfgFile EXCEPT !.reads = @ + 1]
    /\ LET config == cfgFile.content
       IN /\ self' = [config_file |-> args.config_file,
                      repo_path |-> args.repo_path,
                      dry_run |-> args.dry_run,
                      reports_path |-> args.repo_path \o <<"/","r","e","p","o","r","t","s">>]
          /\ loc' = [loc EXCEPT !.exclusion_files = config["exclusion_files"], !.step = 1]
          /\ printed' = printed \o
                << <<"-","-","-","-","-","-","-","-","-","-","-","-","-","-","-","-","-","-","-","-","-","-","-","-","-","-","-","-","-","-","-","-","-","-","-","-","-","-","-","-","-","-","-","-","-","-","-","-","-","-","-">>,
                   <<"C","l","e","a","n","i","n","g"," ","u","p"," ","r","e","p","o",":"," ">> \o config["repo_local_name"],
                   <<"R","e","p","o"," ","l","o","c","a","t","e","d",":"," "," "," "," "," ">> \o args.repo_path,
                   <<"C","o","n","f","i","g"," ","f","i","l","e",":"," "," "," "," "," "," ">> \o args.config_file,
                   <<>>,
                   <<"R","u","n","n","i","n","g"," ","f","r","o","m",":"," "," "," "," "," ">> \o ScriptPath,
                   <<"-","-","-","-","-","-","-","-","-","-","-","-","-","-","-","-","-","-","-","-","-","-","-","-","-","-","-","-","-","-","-","-","-","-","-","-","-","-","-","-","-","-","-","-","-","-","-","-","-","-","-">> >>
          /\ calls' = calls
                \o << Call("git config safe.directory", args.repo_path) >>
                \o (IF loc.reports_exists THEN <<>>
                    ELSE << Call("os.makedirs", args.repo_path \o <<"/","r","e","p","o","r","t","s">>) >>)
    /\ running' = running \cup {"git config safe.directory"}
    /\ pc' = "filter_branch"
    /\ UNCHANGED <<inputVars, history, remoteVars, error, exitCode>>

CL_Done == loc.step > Len(loc.exclusion_files)

\* the loop of exec, lines 57-64, with filter_branch (which waits)
CL_FilterBranch ==
    /\ script = "clean_repo" /\ pc = "filter_branch"
    /\ IF CL_Done
       THEN /\ pc' = "done"
            /\ exitCode' = "0"
            /\ UNCHANGED <<printed, calls>>
       ELSE LET excl == loc.exclusion_files[loc.step]
                line == <<"g","i","t"," ","f","i","l","t","e","r","-","b","r","a","n","c","h"," ","-"," ","D","e","l","e","t","i","n","g"," ","f","r","o","m"," ","r","e","p","o",":"," ">> \o excl
            IN /\ IF ~Truthy(self.dry_run)
                  THEN /\ printed' = Append(printed, line)
                       /\ calls' = Append(calls, Call("git filter-branch", excl))
                  ELSE /\ printed' = printed \o << line, <<"d","r","y","-","r","u","n">> >>
                       /\ UNCHANGED calls
               /\ pc' = "filter_repo"
               /\ UNCHANGED exitCode
    /\ UNCHANGED <<inputVars, cfgFile, self, loc, running, history, remoteVars, error>>

\* the loop of exec, lines 66-71, with filter_repo (which waits)
CL_FilterRepo ==
    /\ script = "clean_repo" /\ pc = "filter_repo"
    /\ LET excl == loc.exclusion_files[loc.step]
           line == <<"g","i","t"," ","f","i","l","t","e","r","-","r","e","p","o"," ","-"," ","D","e","l","e","t","i","n","g"," ","f","r","o","m"," ","r","e","p","o",":"," ">> \o excl
       IN IF ~Truthy(self.dry_run)
          THEN /\ printed' = Append(printed, line)
               /\ calls' = Append(calls, Call("git filter-repo", excl))
          ELSE /\ printed' = printed \o << line, <<"d","r","y","-","r","u","n">> >>
               /\ UNCHANGED calls
    /\ loc' = [loc EXCEPT !.step = @ + 1]
    /\ pc' = "filter_branch"
    /\ UNCHANGED <<inputVars, cfgFile, self, running, history, remoteVars,
                   error, exitCode>>

\* the git config process started by safe_directory finishes
CL_ChildExit ==
    /\ script = "clean_repo"
    /\ \E c \in running : running' = running \ {c}
    /\ UNCHANGED <<inputVars, pc, exitCode, error, cfgFile, self, loc, calls,
                   printed, history, remoteVars>>

CleanRepo == CL_Start \/ CL_FilterBranch \/ CL_FilterRepo \/ CL_ChildExit

----------------------------------------------------------------------------
(* mr_comment.py *)

MC_EnvNames == <<"GITLAB_API_URL", "CI_PROJECT_ID", "CI_COMMIT_REF_NAME", "RENOVATE_TOKEN">>

\* `not value` of os.environ.get(name): unset or empty
Falsy(v) == v = None \/ v = <<>>

\* update_or_create_comment, line 168, and the test of line 200
marker(identifier) == Concat(<< <<"<","!","-","-"," ">>, identifier, <<" ","-","-",">">> >>)

comment_with_id(comment, identifier) == Concat(<< marker(identifier), <<"\n">>, comment >>)

\* the id of the first note of the response whose body contains the marker,
\* 0 for None.  The response is what one GET of the notes URL returns.
find_existing_note(identifier, response) ==
    LET hit == {i \in 1..Len(response) : Contains(response[i].body, marker(identifier))}
    IN IF hit = {} THEN 0 ELSE response[Min(hit)].id

\* the notes listing of a merge request as one GET returns it
NotesResponse(iid) == ListOnce(notes[iid])

NewNoteId == Len(notes[1]) + Len(notes[2]) + 1

Failed(op) == loc' = [loc EXCEPT !.failed = @ \cup {op}]

Exit(success) ==
    /\ pc' = "done"
    /\ exitCode' = IF success THEN "0" ELSE "1"

----------------------------------------------------------------------------
(* create_helm_diff_comment.  Each emoji of the source text is one code     *)
(* point; it is written @ here, and the backquote is written '.            *)

\* the default of the parameter max_diff_size
DefaultMaxDiffSize == 45000

Digits == <<"0","1","2","3","4","5","6","7","8","9">>

\* str(n) of an int n >= 0
RECURSIVE str(_)
str(n) == IF n < 10 THEN << Digits[n + 1] >> ELSE str(n \div 10) \o << Digits[(n % 10) + 1] >>

\* diff_content[:max_diff_size]
truncated_diff(diff_content, max_diff_size) ==
    SubSeq(diff_content, 1, Min({Len(diff_content), max_diff_size}))

\* lines 262-269, cutting one character late
diff_display_OneMore(diff_content, max_diff_size) ==
    IF Len(diff_content) > max_diff_size
    THEN Concat(<< truncated_diff(diff_content, max_diff_size + 1),
                   <<"\n","\n",".",".","."," ","(","d","i","f","f"," ","t","r","u","n","c","a","t","e","d"," ","-"," ","t","o","t","a","l"," ","s","i","z","e",":"," ">>, str(Len(diff_content)),
                   <<" ","c","h","a","r","a","c","t","e","r","s",")","\n","@"," ","*","*","F","u","l","l"," ","d","i","f","f"," ","a","v","a","i","l","a","b","l","e"," ","i","n"," ","p","i","p","e","l","i","n","e"," ","a","r","t","i","f","a","c","t","s","*","*">> >>)
    ELSE diff_content

\* lines 262-269
diff_display(diff_content, max_diff_size) ==
    IF Len(diff_content) > max_diff_size
    THEN Concat(<< truncated_diff(diff_content, max_diff_size),
                   <<"\n","\n",".",".","."," ","(","d","i","f","f"," ","t","r","u","n","c","a","t","e","d"," ","-"," ","t","o","t","a","l"," ","s","i","z","e",":"," ">>, str(Len(diff_content)),
                   <<" ","c","h","a","r","a","c","t","e","r","s",")","\n","@"," ","*","*","F","u","l","l"," ","d","i","f","f"," ","a","v","a","i","l","a","b","l","e"," ","i","n"," ","p","i","p","e","l","i","n","e"," ","a","r","t","i","f","a","c","t","s","*","*">> >>)
    ELSE diff_content

\* line 271
artifact_url(pipeline_url, job_id) ==
    Concat(<< pipeline_url, <<"/","-","/","j","o","b","s","/">>, job_id, <<"/","a","r","t","i","f","a","c","t","s","/","d","o","w","n","l","o","a","d">> >>)

create_helm_diff_comment(added_lines, removed_lines, diff_content, branch_name, pipeline_url, job_id, max_diff_size) ==
    IF added_lines = 0 /\ removed_lines = 0
    THEN Concat(<< <<"#","#"," ","@"," ","H","e","l","m"," ","C","h","a","r","t"," ","D","i","f","f"," ","R","e","s","u","l","t","s","\n","\n","@"," ","*","*","N","o"," ","d","i","f","f","e","r","e","n","c","e","s"," ","f","o","u","n","d","*","*"," ","b","e","t","w","e","e","n"," ","'","m","a","i","n","'"," ","a","n","d"," ","'">>,
                   branch_name,
                   <<"'"," ","b","r","a","n","c","h","e","s",".","\n","\n","T","h","e"," ","H","e","l","m"," ","c","h","a","r","t"," ","t","e","m","p","l","a","t","e","s"," ","a","r","e"," ","i","d","e","n","t","i","c","a","l"," ","-"," ","n","o"," ","r","e","s","o","u","r","c","e","s"," ","w","i","l","l"," ","b","e"," ","c","h","a","n","g","e","d"," ","b","y"," ","t","h","i","s"," ","m","e","r","g","e"," ","r","e","q","u","e","s","t",".">> >>)
    ELSE Concat(<< <<"#","#"," ","@"," ","H","e","l","m"," ","C","h","a","r","t"," ","D","i","f","f"," ","R","e","s","u","l","t","s","\n","\n","@"," ","*","*","C","h","a","n","g","e","s"," ","d","e","t","e","c","t","e","d","*","*"," ","b","e","t","w","e","e","n"," ","'","m","a","i","n","'"," ","a","n","d"," ","'">>,
                   branch_name, <<"'"," ","b","r","a","n","c","h","e","s",":","\n","-"," ","*","*">>, str(added_lines),
                   <<"*","*"," ","l","i","n","e","s"," ","a","d","d","e","d","\n","-"," ","*","*">>, str(removed_lines),
                   <<"*","*"," ","l","i","n","e","s"," ","r","e","m","o","v","e","d","\n","\n","<","d","e","t","a","i","l","s",">","\n","<","s","u","m","m","a","r","y",">","@"," ","C","l","i","c","k"," ","t","o"," ","v","i","e","w"," ","t","h","e"," ","d","i","f","f","<","/","s","u","m","m","a","r","y",">","\n","\n","'","'","'","d","i","f","f","\n">>,
                   diff_display(diff_content, max_diff_size),
                   <<"\n","'","'","'","\n","\n","<","/","d","e","t","a","i","l","s",">","\n","\n","@"," ","*","*","R","e","v","i","e","w"," ","t","h","e"," ","c","h","a","n","g","e","s"," ","a","b","o","v","e","*","*"," ","t","o"," ","u","n","d","e","r","s","t","a","n","d"," ","t","h","e"," ","i","m","p","a","c","t"," ","o","n"," ","y","o","u","r"," ","K","u","b","e","r","n","e","t","e","s"," ","r","e","s","o","u","r","c","e","s",".","\n","@"," ","[","V","i","e","w"," ","f","u","l","l"," ","p","i","p","e","l","i","n","e"," ","l","o","g","s","]","(">>,
                   pipeline_url, <<")"," ","|"," ","@"," ","[","D","o","w","n","l","o","a","d"," ","d","i","f","f"," ","a","r","t","i","f","a","c","t","]","(">>,
                   artifact_url(pipeline_url, job_id), <<")">> >>)

\* Python's or, on text
Or(a, b) == IF Falsy(a) THEN b ELSE a

\* main, lines 351-374: the helm diff comment and its identifier take the place
\* of the comment and the identifier of the command line
MC_HelmComment ==
    /\ script = "mr_comment" /\ pc = "helm"
    /\ args' = [args EXCEPT
                  !.comment = create_helm_diff_comment(
                      args.added_lines, args.removed_lines, args.diff_content,
                      Or(args.branch_name, env["CI_COMMIT_REF_NAME"]),
                      Or(args.pipeline_url, Or(env["CI_PIPELINE_URL"], <<>>)),
                      Or(args.job_id, Or(env["CI_JOB_ID"], <<>>)),
                      args.max_diff_size),
                  !.identifier = Or(args.identifier, <<"h","e","l","m","-","c","h","a","r","t","-","d","i","f","f">>)]
    /\ pc' = "find_mr"
    /\ UNCHANGED <<script, env, exitCode, error, cfgFile, self, loc, calls, printed,
                   running, history, remoteVars>>

\* __init__, lines 35-45: the names of the missing variables, joined
MC_MissingNames ==
    LET label(i) == << <<"G","I","T","L","A","B","_","A","P","I","_","U","R","L"," ","o","r"," ","C","I","_","A","P","I","_","V","4","_","U","R","L">>, <<"C","I","_","P","R","O","J","E","C","T","_","I","D">>,
                       <<"C","I","_","C","O","M","M","I","T","_","R","E","F","_","N","A","M","E">>, <<"R","E","N","O","V","A","T","E","_","T","O","K","E","N">> >>[i]
        missing(i) == IF i = 1 THEN Falsy(env["GITLAB_API_URL"]) /\ Falsy(env["CI_API_V4_URL"])
                      ELSE Falsy(env[MC_EnvNames[i]])
        part(i) == IF ~missing(i) THEN <<>>
                   ELSE (IF \E k \in 1..(i - 1) : missing(k) THEN <<","," ">> ELSE <<>>) \o label(i)
    IN Concat([i \in 1..Len(MC_EnvNames) |-> part(i)])

\* main, lines 348-391, to the call of the commenter; GitLabMRCommenter.__init__
MC_Construct ==
    /\ script = "mr_comment" /\ pc = "init"
    /\ IF \/ Falsy(env["GITLAB_API_URL"]) /\ Falsy(env["CI_API_V4_URL"])
          \/ \E i \in 2..Len(MC_EnvNames) : Falsy(env[MC_EnvNames[i]])
       THEN \* ValueError, caught at line 395
            /\ pc' = "done"
            /\ error' = "ValueError"
            /\ exitCode' = "1"
            /\ printed' = Append(printed,
                                 <<"@"," ","E","r","r","o","r",":"," ","M","i","s","s","i","n","g"," ","r","e","q","u","i","r","e","d"," ","e","n","v","i","r","o","n","m","e","n","t"," ","v","a","r","i","a","b","l","e","s",":"," ">>
                                 \o MC_MissingNames)
            /\ UNCHANGED self
       ELSE /\ self' = [api_url |-> IF env["GITLAB_API_URL"] # None
                                    THEN env["GITLAB_API_URL"] ELSE env["CI_API_V4_URL"],
                        project_id |-> env["CI_PROJECT_ID"],
                        ci_commit_ref_name |-> env["CI_COMMIT_REF_NAME"],
                        token |-> env["RENOVATE_TOKEN"],
                        mr_iid |-> 0]
            /\ pc' = IF args.helm_diff THEN "helm"
                     ELSE IF Falsy(args.identifier) THEN "post_mr" ELSE "find_mr"
            /\ UNCHANGED <<error, exitCode, printed>>
    /\ UNCHANGED <<inputVars, cfgFile, loc, calls, running, history, remoteVars>>

\* the text of a requests exception, which the library chooses
RequestError == <<"e">>

\* _get_mr_iid, lines 78-99: the lines printed for a response
MC_LookupLines(merge_requests) ==
    IF merge_requests = <<>>
    THEN << Concat(<< <<"@"," ","N","o"," ","o","p","e","n"," ","m","e","r","g","e"," ","r","e","q","u","e","s","t","s"," ","f","o","u","n","d"," ","f","o","r"," ","b","r","a","n","c","h"," ","'">>,
                      self.ci_commit_ref_name, <<"'">> >>) >>
    ELSE (IF Len(merge_requests) > 1
          THEN << Concat(<< <<"@"," ","M","u","l","t","i","p","l","e"," ","m","e","r","g","e"," ","r","e","q","u","e","s","t","s"," ","f","o","u","n","d"," ","f","o","r"," ","b","r","a","n","c","h"," ","'">>,
                            self.ci_commit_ref_name, <<"'",","," ","u","s","i","n","g"," ","t","h","e"," ","f","i","r","s","t"," ","o","n","e">> >>) >>
          ELSE <<>>)
         \o << Concat(<< <<"@"," ","F","o","u","n","d"," ","m","e","r","g","e"," ","r","e","q","u","e","s","t"," ","!">>, str(merge_requests[1]),
                         <<" ","f","o","r"," ","b","r","a","n","c","h"," ","'">>, self.ci_commit_ref_name, <<"'">> >>) >>

\* _get_mr_iid, lines 58-107: the request and what it returns (0 for None);
\* next is where the caller goes with an iid, and the caller's None branch
\* is taken otherwise, after the lines none_says
MC_get_mr_iid(next, none_pc, none_says) ==
    /\ calls' = Append(calls, Call("merge_requests.get", self.ci_commit_ref_name))
    /\ \E ok \in BOOLEAN :
          IF ok /\ mrOpen # <<>>
          THEN /\ self' = [self EXCEPT !.mr_iid = mrOpen[1]]
               /\ loc' = [loc EXCEPT !.lookups = Append(@, mrOpen)]
               /\ printed' = printed \o MC_LookupLines(mrOpen)
               /\ pc' = next
               /\ UNCHANGED exitCode
          ELSE /\ IF ok
                  THEN /\ UNCHANGED loc
                       /\ printed' = printed \o MC_LookupLines(<<>>) \o none_says
                  ELSE /\ Failed("merge_requests.get")
                       /\ printed' = printed
                                     \o << <<"@"," ","F","a","i","l","e","d"," ","t","o"," ","f","e","t","c","h"," ","m","e","r","g","e"," ","r","e","q","u","e","s","t"," ","I","I","D",":"," ">> \o RequestError >>
                                     \o none_says
               /\ UNCHANGED self
               /\ IF none_pc = "done"
                  THEN Exit(FALSE)
                  ELSE pc' = none_pc /\ UNCHANGED exitCode

\* _find_existing_note, lines 180-182
MC_FindMr ==
    /\ script = "mr_comment" /\ pc = "find_mr"
    /\ MC_get_mr_iid("find_notes", "post_mr", <<>>)
    /\ UNCHANGED <<inputVars, cfgFile, running, history, remoteVars, error>>

\* _find_existing_note, lines 184-207, and the branch of lines 173-176
MC_FindNotes ==
    /\ script = "mr_comment" /\ pc = "find_notes"
    /\ calls' = Append(calls, Call("notes.get", <<>>))
    /\ \E ok \in BOOLEAN :
          IF ok
          THEN /\ loc' = [loc EXCEPT !.existing_note_id =
                              find_existing_note(args.identifier, NotesResponse(self.mr_iid)),
                                     !.targets = @ \cup {self.mr_iid}]
               /\ pc' = IF find_existing_note(args.identifier, NotesResponse(self.mr_iid)) # 0
                        THEN "update" ELSE "post_mr"
               /\ UNCHANGED printed
          ELSE /\ loc' = [loc EXCEPT !.existing_note_id = 0,
                                     !.failed = @ \cup {"notes.get"},
                                     !.targets = @ \cup {self.mr_iid}]
               /\ pc' = "post_mr"
               /\ printed' = Append(printed, <<"@"," ","F","a","i","l","e","d"," ","t","o"," ","f","e","t","c","h"," ","e","x","i","s","t","i","n","g"," ","n","o","t","e","s",":"," ">> \o RequestError)
    /\ UNCHANGED <<inputVars, cfgFile, self, running, history, remoteVars,
                   error, exitCode>>

\* the body main passes to post_comment
MC_Body ==
    IF Falsy(args.identifier) THEN args.comment
    ELSE comment_with_id(args.comment, args.identifier)

\* an update that adds to the body it finds
PutNote_Patch(ns, id, body) ==
    [i \in 1..Len(ns) |-> IF ns[i].id = id THEN [ns[i] EXCEPT !.body = @ \o body] ELSE ns[i]]

\* GitLab's PUT of a note: the body of the note with that id is replaced
PutNote(ns, id, body) ==
    [i \in 1..Len(ns) |-> IF ns[i].id = id THEN [ns[i] EXCEPT !.body = body] ELSE ns[i]]

\* _update_note, lines 211-240 (the iid is cached by now), and main's exit
MC_Update ==
    /\ script = "mr_comment" /\ pc = "update"
    /\ calls' = Append(calls, Call("notes.put", MC_Body))
    /\ \E ok \in BOOLEAN :
          IF ok
          THEN /\ notes' = [notes EXCEPT ![self.mr_iid] =
                                PutNote(@, loc.existing_note_id, MC_Body)]
               /\ Exit(TRUE)
               /\ loc' = [loc EXCEPT !.targets = @ \cup {self.mr_iid}]
               /\ printed' = Append(printed, <<"@"," ","C","o","m","m","e","n","t"," ","u","p","d","a","t","e","d"," ","s","u","c","c","e","s","s","f","u","l","l","y"," ","i","n"," ","M","R"," ","!">>
                                             \o str(self.mr_iid))
          ELSE /\ loc' = [loc EXCEPT !.failed = @ \cup {"notes.put"},
                                     !.targets = @ \cup {self.mr_iid}]
               /\ Exit(FALSE)
               /\ printed' = Append(printed, <<"@"," ","F","a","i","l","e","d"," ","t","o"," ","u","p","d","a","t","e"," ","c","o","m","m","e","n","t",":"," ">> \o RequestError)
               /\ UNCHANGED notes
    /\ UNCHANGED <<inputVars, cfgFile, self, running, history,
                   glProjects, glGroups, ghRepos, mrOpen, error>>

\* post_comment, lines 120-125: what it prints without an iid
MC_CannotPost == << <<"@"," ","C","a","n","n","o","t"," ","p","o","s","t"," ","c","o","m","m","e","n","t",":"," ","N","o"," ","m","e","r","g","e"," ","r","e","q","u","e","s","t"," ","f","o","u","n","d">> >>

\* post_comment without the return of lines 120-125
MC_PostMr_NoneNotChecked ==
    /\ script = "mr_comment" /\ pc = "post_mr"
    /\ IF self.mr_iid # 0
       THEN /\ pc' = "post"
            /\ UNCHANGED <<calls, self, loc, exitCode, printed>>
       ELSE MC_get_mr_iid("post", "post", <<>>)
    /\ UNCHANGED <<inputVars, cfgFile, running, history, remoteVars, error>>

\* post_comment whose call of _get_mr_iid does not look at the cached iid
MC_PostMr_CacheIgnored ==
    /\ script = "mr_comment" /\ pc = "post_mr"
    /\ MC_get_mr_iid("post", "done", MC_CannotPost)
    /\ UNCHANGED <<inputVars, cfgFile, running, history, remoteVars, error>>

\* post_comment, lines 119-125: the iid, requested again unless cached
MC_PostMr ==
    /\ script = "mr_comment" /\ pc = "post_mr"
    /\ IF self.mr_iid # 0
       THEN /\ pc' = "post"
            /\ UNCHANGED <<calls, self, loc, exitCode, printed>>
       ELSE MC_get_mr_iid("post", "done", MC_CannotPost)
    /\ UNCHANGED <<inputVars, cfgFile, running, history, remoteVars, error>>

\* post_comment, lines 127-154, and main's exit
MC_Post ==
    /\ script = "mr_comment" /\ pc = "post"
    /\ calls' = Append(calls, Call("notes.post", MC_Body))
    /\ \E ok \in BOOLEAN :
          IF ok
          THEN /\ notes' = [notes EXCEPT ![self.mr_iid] =
                                << [id |-> NewNoteId, body |-> MC_Body] >> \o @]
               /\ Exit(TRUE)
               /\ loc' = [loc EXCEPT !.targets = @ \cup {self.mr_iid}]
               /\ printed' = Append(printed, <<"@"," ","C","o","m","m","e","n","t"," ","p","o","s","t","e","d"," ","s","u","c","c","e","s","s","f","u","l","l","y"," ","t","o"," ","M","R"," ","!">>
                                             \o str(self.mr_iid))
          ELSE /\ loc' = [loc EXCEPT !.failed = @ \cup {"notes.post"},
                                     !.targets = @ \cup {self.mr_iid}]
               /\ Exit(FALSE)
               /\ printed' = Append(printed, <<"@"," ","F","a","i","l","e","d"," ","t","o"," ","p","o","s","t"," ","c","o","m","m","e","n","t",":"," ">> \o RequestError)
               /\ UNCHANGED notes
    /\ UNCHANGED <<inputVars, cfgFile, self, running, history,
                   glProjects, glGroups, ghRepos, mrOpen, error>>

\* GitLab between two requests of a run: a second merge request is opened
\* from the branch, and the open merge requests are listed newest first
MC_MrOpened ==
    /\ script = "mr_comment" /\ pc \in {"find_mr", "find_notes", "post_mr", "update", "post"}
    /\ mrOpen = <<1>>
    /\ mrOpen' = <<2, 1>>
    /\ UNCHANGED <<inputVars, pc, exitCode, error, cfgFile, self, loc, calls, printed,
                   running, history, glProjects, glGroups, ghRepos, notes>>

MC_Identifiers == { <<"a">>, <<"b">> }
MC_Comments == { <<"x">>, <<"y">> }

\* the pipeline runs the script once more: a new process, with its own
\* command line, against the merge request as the first run left it
MC_Rerun ==
    /\ script = "mr_comment" /\ pc = "done" /\ history = <<>>
    /\ error = ""
    /\ history' = Append(history,
                         [args |-> args, exitCode |-> exitCode, calls |-> calls,
                          failed |-> loc.failed, mr_iid |-> self.mr_iid,
                          before |-> loc.before])
    /\ \E c \in MC_Comments, i \in MC_Identifiers \cup {None} :
          args' = [args EXCEPT !.comment = c, !.identifier = i]
    /\ pc' = "init"
    /\ exitCode' = "running"
    /\ calls' = <<>>
    /\ loc' = [FreshLoc EXCEPT !.before = notes]
    /\ self' = [mr_iid |-> 0]
    /\ printed' = <<>>
    /\ UNCHANGED <<script, env, cfgFile, running, remoteVars, error>>

MrComment ==
    \/ MC_Construct \/ MC_HelmComment \/ MC_FindMr \/ MC_FindNotes \/ MC_Update
    \/ MC_PostMr \/ MC_Post \/ MC_Rerun \/ MC_MrOpened

----------------------------------------------------------------------------
(* The inputs of a run *)

SeqsUpTo(S, n) == UNION {[1..k -> S] : k \in 0..n}

BaseArgs ==
    [config_file |-> <<"c","i",".","y","m","l">>, repo_path |-> <<"/","r","e","p","o">>,
     dry_run |-> "None", create_repo |-> "None", create_mirror |-> "None",
     CI_SERVER_URL |-> None, CI_SERVER_TOKEN |-> None, GL_DEFAULT_GROUP |-> None,
     GITHUB_USER |-> None, GITHUB_PASS |-> None, GITHUB_ORG |-> None,
     GL_USER_NAME |-> None, GL_USER_MAIL |-> None,
     comment |-> <<"x">>, identifier |-> None,
     helm_diff |-> FALSE, added_lines |-> 0, removed_lines |-> 0, diff_content |-> <<>>,
     branch_name |-> None, pipeline_url |-> None, job_id |-> None,
     max_diff_size |-> DefaultMaxDiffSize]

BaseEnv ==
    [CI_SERVER_URL |-> <<"h","t","t","p","s",":","/","/","g","l",".","i","o">>, CI_SERVER_TOKEN |-> <<"t","o","k">>,
     GL_DEFAULT_GROUP |-> <<"g","r","p">>, GITHUB_USER |-> <<"u","s","r">>, GITHUB_PASS |-> <<"p","w">>,
     GITHUB_ORG |-> <<"o","r","g">>, GL_USER_NAME |-> <<"b","o","t">>, GL_USER_MAIL |-> <<"b","@","x">>,
     CI_PROJECT_PATH |-> <<"g","r","p","/","s","v","c">>, GITLAB_API_URL |-> None,
     CI_API_V4_URL |-> <<"h","t","t","p","s",":","/","/","g","l",".","i","o","/","a","p","i">>, CI_PROJECT_ID |-> <<"7">>,
     CI_COMMIT_REF_NAME |-> <<"b","r">>, RENOVATE_TOKEN |-> <<"r","t">>,
     CI_PIPELINE_URL |-> <<"h","t","t","p","s",":","/","/","g","l",".","i","o","/","p","/","1">>, CI_JOB_ID |-> <<"9">>]

BaseConf == [repo_local_name |-> <<"s","v","c">>, github_repo_name |-> <<"h","u","b">>]

\* a config document with the optional keys of `more` added
Conf(more) ==
    [k \in DOMAIN BaseConf \cup DOMAIN more |->
        IF k \in DOMAIN more THEN more[k] ELSE BaseConf[k]]

\* the optional boolean key `key`: absent, true or false
ConfFlag(key) == {<<>>} \cup {[k \in {key} |-> v] : v \in {"True", "False"}}

Merge(f, g) ==
    [k \in DOMAIN f \cup DOMAIN g |-> IF k \in DOMAIN g THEN g[k] ELSE f[k]]

\* a listing, newest first, of items with the given names
Listing(names, item(_, _)) ==
    [i \in 1..Len(names) |-> item(Len(names) - i + 1, names[i])]

ProjectItem(id, name) == [id |-> id, name |-> name, mirrors |-> <<>>]
RepoItem(id, name) == [id |-> id, name |-> name, protected |-> FALSE]
NoteItem(id, body) == [id |-> id, body |-> body]

OtherMirror == <<"h","t","t","p","s",":","/","/","*","*","*","*","*",":","*","*","*","*","*","@","g","i","t","h","u","b",".","c","o","m","/","o","r","g","/","o","t","h",".","g","i","t">>

BaseInput ==
    [script |-> "gitlab-repo", args |-> BaseArgs, env |-> BaseEnv, conf |-> BaseConf,
     projects |-> <<>>, groups |-> TRUE, repos |-> <<>>, mrOpen |-> <<>>,
     notes |-> <<>>, reports_exists |-> FALSE]

\* the three sources of a value that has an environment fallback: explicit
\* argument and variable, the argument alone, the variable alone, or neither
EnvCases(names, in) ==
    {[in EXCEPT !.args[names[i]] = a, !.env[names[i]] = e] :
        i \in 1..Len(names), a \in {None, <<"a","r","g">>}, e \in {None, <<"v","a","r">>}}

GitlabInputs ==
    \* the flags and the config keys, against an absent project, a project
    \* without the mirror and a project with it
    {[BaseInput EXCEPT
        !.args = [BaseArgs EXCEPT !.dry_run = d, !.create_repo = r, !.create_mirror = m],
        !.conf = Conf(Merge(cr, cm)),
        !.projects = p, !.groups = g] :
        d \in Flags, r \in Flags, m \in Flags,
        cr \in ConfFlag("gitlab_create_repo"), cm \in ConfFlag("gitlab_create_mirror"),
        p \in {<<>>,
               << ProjectItem(1, <<"s","v","c">>) >>,
               << [ProjectItem(1, <<"s","v","c">>) EXCEPT
                     !.mirrors = << gh_r_url_mask(<<"o","r","g">>, <<"h","u","b">>) >>] >>},
        g \in BOOLEAN}
    \cup
    \* the projects listing
    {[BaseInput EXCEPT
        !.args = [BaseArgs EXCEPT !.dry_run = "False", !.create_repo = "True",
                                  !.create_mirror = "True"],
        !.projects = Listing(names, ProjectItem)] :
        names \in SeqsUpTo({ <<"s","v","c">>, <<"o","t","h">> }, MaxItems)}
    \cup
    \* the mirrors listing of the project
    {[BaseInput EXCEPT
        !.args = [BaseArgs EXCEPT !.dry_run = "False", !.create_repo = "True",
                                  !.create_mirror = "True"],
        !.projects = << [ProjectItem(1, <<"s","v","c">>) EXCEPT !.mirrors = ms] >>] :
        ms \in SeqsUpTo({gh_r_url_mask(<<"o","r","g">>, <<"h","u","b">>), OtherMirror}, MaxItems)}
    \cup
    \* the values with an environment fallback, and the optional config keys
    EnvCases(GL_EnvNames, [BaseInput EXCEPT !.args.create_repo = "True"])
    \cup
    {[BaseInput EXCEPT !.conf = Conf(c)] :
        c \in {[gitlab_sync_repo_name |-> <<"s","y","n">>],
               [gitlab_sync_repo_desc |-> <<"t","e","x","t">>]}}
    \cup
    \* the credentials
    {[BaseInput EXCEPT
        !.args = [BaseArgs EXCEPT !.create_repo = "True", !.create_mirror = "True"],
        !.env = [BaseEnv EXCEPT !.GITHUB_USER = u, !.GITHUB_PASS = p,
                                !.CI_SERVER_TOKEN = t]] :
        u \in { <<"u","s","r">>, <<"o","r","g">>, <<"*","*","*","*","*">> },
        p \in { <<"p","w">>, <<"g","i","t">>, <<"*">> },
        t \in { <<"t","o","k">>, <<"g","l">> }}

GithubInputs ==
    {[BaseInput EXCEPT
        !.script = "github-repo",
        !.args = [BaseArgs EXCEPT !.dry_run = d, !.create_repo = r],
        !.conf = Conf(cr),
        !.repos = Listing(names, RepoItem)] :
        d \in Flags, r \in Flags, cr \in ConfFlag("github_create_repo"),
        names \in SeqsUpTo({ <<"h","u","b">>, <<"o","t","h">> }, MaxItems)}
    \cup
    EnvCases(GH_EnvNames, [BaseInput EXCEPT !.script = "github-repo"])

SyncInputs ==
    {[BaseInput EXCEPT !.script = "repo_sync", !.args.dry_run = d] : d \in Flags}
    \cup
    EnvCases(SY_EnvNames, [BaseInput EXCEPT !.script = "repo_sync"])
    \cup
    {[BaseInput EXCEPT !.script = "repo_sync", !.env.CI_PROJECT_PATH = None]}
    \cup
    {[BaseInput EXCEPT
        !.script = "repo_sync",
        !.conf = c,
        !.env = [BaseEnv EXCEPT !.CI_SERVER_TOKEN = t, !.CI_SERVER_URL = u]] :
        c \in {BaseConf, Conf([gitlab_sync_repo_name |-> <<"s","y","n">>])},
        t \in { <<"t","o","k">>, <<"*","*","*","*","*","*">>, <<"g","r","p">> },
        u \in { <<"h","t","t","p","s",":","/","/","g","l",".","i","o">>, <<"h","t","t","p",":","/","/","g","l",".","i","o","/","c","i">> }}

CleanInputs ==
    {[BaseInput EXCEPT
        !.script = "clean_repo",
        !.args.dry_run = d,
        !.conf = Conf([exclusion_files |-> ex]),
        !.reports_exists = re] :
        d \in Flags, re \in BOOLEAN,
        ex \in SeqsUpTo({ <<"k",".","p","e","m">>, <<".","e","n","v">> }, MaxItems)}

\* what the notes of the merge request may hold before the run
MC_NoteBodies ==
    { <<"x">>, comment_with_id(<<"x">>, <<"a">>), comment_with_id(<<"y">>, <<"b">>) }

MrCommentInputs ==
    {[BaseInput EXCEPT
        !.script = "mr_comment",
        !.args = [BaseArgs EXCEPT !.comment = c, !.identifier = i],
        !.mrOpen = mrs,
        !.notes = Listing(bodies, NoteItem)] :
        c \in MC_Comments, i \in MC_Identifiers \cup {None, <<>>},
        mrs \in {<<>>, <<1>>, <<1, 2>>},
        bodies \in SeqsUpTo(MC_NoteBodies, MaxItems)}
    \cup
    {[BaseInput EXCEPT
        !.script = "mr_comment", !.mrOpen = <<1>>,
        !.env = Merge(BaseEnv, e)] :
        e \in {[k \in {name} |-> v] :
                  name \in {"GITLAB_API_URL", "CI_API_V4_URL", "CI_PROJECT_ID",
                            "CI_COMMIT_REF_NAME", "RENOVATE_TOKEN"},
                  v \in {None, <<>>, <<"v">>}}}

\* mr_comment --helm-diff
HelmInputs ==
    {[BaseInput EXCEPT
        !.script = "mr_comment", !.mrOpen = <<1>>,
        !.args = [BaseArgs EXCEPT !.helm_diff = TRUE, !.added_lines = a,
                                  !.diff_content = d, !.identifier = i],
        !.env = [BaseEnv EXCEPT !.CI_JOB_ID = j]] :
        a \in {0, 1}, d \in {<<>>, <<"+","a">> }, i \in {None, <<"a">> }, j \in {None, <<"9">> }}

\* a comment text that holds the marker of identifier a
MC_QuotingComment == <<"<","!","-","-"," ","a"," ","-","-",">","z">>

\* mr_comment with that text, for the other identifier
QuotingInputs ==
    {[BaseInput EXCEPT
        !.script = "mr_comment", !.mrOpen = <<1>>,
        !.args = [BaseArgs EXCEPT !.comment = MC_QuotingComment, !.identifier = i]] :
        i \in { <<"b">>, <<"a">> }}

Inputs == QuotingInputs \cup HelmInputs \cup GitlabInputs \cup GithubInputs \cup SyncInputs \cup CleanInputs \cup MrCommentInputs

Init ==
    \E in \in Inputs :
        /\ script = in.script
        /\ pc = "init"
        /\ exitCode = "running"
        /\ error = ""
        /\ args = in.args
        /\ env = in.env
        /\ cfgFile = [exists |-> TRUE, content |-> in.conf, reads |-> 0]
        /\ self = [mr_iid |-> 0]
        /\ loc = [FreshLoc EXCEPT
                    !.reports_exists = in.reports_exists,
                    !.before = [iid \in {1, 2} |-> IF iid = 1 THEN in.notes ELSE <<>>]]
        /\ calls = <<>>
        /\ printed = <<>>
        /\ running = {}
        /\ history = <<>>
        /\ glProjects = in.projects
        /\ glGroups = in.groups
        /\ ghRepos = in.repos
        /\ mrOpen = in.mrOpen
        /\ notes = [iid \in {1, 2} |-> IF iid = 1 THEN in.notes ELSE <<>>]

Next == GitlabRepo \/ GithubRepo \/ RepoSync \/ CleanRepo \/ MrComment

Spec == Init /\ [][Next]_vars


----------------------------------------------------------------------------
(* create_helm_diff_comment on its own: main has built the commenter and is *)
(* about to build the helm diff comment, for any max_diff_size             *)

\* the longest diff
MaxDiffLen == 10
\* the largest max_diff_size
MaxDiffSize == 2

\* a diff of n characters
PatternDiff(n) == [k \in 1..n |-> IF k % 2 = 1 THEN "+" ELSE "-"]

DiffContents ==
    SeqsUpTo({"+", "-"}, MaxDiffSize + 1)
    \cup {PatternDiff(n) : n \in (MaxDiffSize + 2)..MaxDiffLen}

HelmCalls ==
    {[BaseInput EXCEPT
        !.script = "mr_comment", !.mrOpen = <<1>>,
        !.args = [BaseArgs EXCEPT
                    !.helm_diff = TRUE, !.added_lines = a, !.removed_lines = r,
                    !.diff_content = d, !.max_diff_size = m,
                    !.branch_name = o, !.pipeline_url = o, !.job_id = o]] :
        a \in {0, 1, 12}, r \in {0, 3}, d \in DiffContents, m \in 0..MaxDiffSize,
        o \in {None, <<"v">> }}

HelmInit ==
    \E in \in HelmCalls :
        /\ script = in.script
        /\ pc = "helm"
        /\ exitCode = "running"
        /\ error = ""
        /\ args = in.args
        /\ env = in.env
        /\ cfgFile = [exists |-> TRUE, content |-> in.conf, reads |-> 0]
        /\ self = [api_url |-> env["CI_API_V4_URL"],
                   project_id |-> env["CI_PROJECT_ID"],
                   ci_commit_ref_name |-> env["CI_COMMIT_REF_NAME"],
                   token |-> env["RENOVATE_TOKEN"],
                   mr_iid |-> 0]
        /\ loc = [FreshLoc EXCEPT !.before = [iid \in {1, 2} |-> <<>>]]
        /\ calls = <<>>
        /\ printed = <<>>
        /\ running = {}
        /\ history = <<>>
        /\ glProjects = in.projects
        /\ glGroups = in.groups
        /\ ghRepos = in.repos
        /\ mrOpen = in.mrOpen
        /\ notes = [iid \in {1, 2} |-> <<>>]

HelmNext == MC_HelmComment

HelmSpec == HelmInit /\ [][HelmNext]_vars

----------------------------------------------------------------------------
(* Two mr_comment processes of one pipeline, on the same merge request.     *)
(* One process is stepping, with its state in the variables; the state of   *)
(* the other is kept in running until the scheduler hands over to it.       *)

\* the state of the stepping process that is its own
Registers ==
    [pc |-> pc, exitCode |-> exitCode, error |-> error, args |-> args, self |-> self,
     loc |-> loc, calls |-> calls, printed |-> printed]

\* the scheduler: between two requests of the stepping process, the other
\* process steps
MC_Switch ==
    /\ script = "mr_comment"
    /\ \E other \in running :
          /\ pc' = other.pc
          /\ exitCode' = other.exitCode
          /\ error' = other.error
          /\ args' = other.args
          /\ self' = other.self
          /\ loc' = other.loc
          /\ calls' = other.calls
          /\ printed' = other.printed
          /\ running' = (running \ {other}) \cup {Registers}
    /\ UNCHANGED <<script, env, cfgFile, history, remoteVars>>

\* two command lines with the same identifier
ConcInputs ==
    {[BaseInput EXCEPT
        !.script = "mr_comment", !.mrOpen = <<1>>,
        !.args = [BaseArgs EXCEPT !.comment = <<"x">>, !.identifier = <<"a">> ],
        !.notes = Listing(bodies, NoteItem)] :
        bodies \in SeqsUpTo(MC_NoteBodies, MaxItems)}

ConcInit ==
    \E in \in ConcInputs, c \in MC_Comments :
        /\ script = in.script
        /\ pc = "init"
        /\ exitCode = "running"
        /\ error = ""
        /\ args = in.args
        /\ env = in.env
        /\ cfgFile = [exists |-> TRUE, content |-> in.conf, reads |-> 0]
        /\ self = [mr_iid |-> 0]
        /\ loc = [FreshLoc EXCEPT
                    !.before = [iid \in {1, 2} |-> IF iid = 1 THEN in.notes ELSE <<>>]]
        /\ calls = <<>>
        /\ printed = <<>>
        /\ running = {[Registers EXCEPT !.args = [in.args EXCEPT !.comment = c]]}
        /\ history = <<>>
        /\ glProjects = in.projects
        /\ glGroups = in.groups
        /\ ghRepos = in.repos
        /\ mrOpen = in.mrOpen
        /\ notes = [iid \in {1, 2} |-> IF iid = 1 THEN in.notes ELSE <<>>]

ConcNext ==
    \/ MC_Construct \/ MC_FindMr \/ MC_FindNotes \/ MC_Update \/ MC_PostMr \/ MC_Post
    \/ MC_Switch

ConcSpec == ConcInit /\ [][ConcNext]_vars
----------------------------------------------------------------------------
(* Properties *)

RepoScripts == {"gitlab-repo", "github-repo"}

\* the object of the script has been constructed
Constructed == "dry_run" \in DOMAIN self

Finished == pc \in {"done", "crashed"}

\* the resources a script reconciles, the create call of each and the flag
\* that enables it
Resources == IF script = "gitlab-repo" THEN {"repo", "mirror"} ELSE {"repo"}

CreateOp(r) ==
    IF r = "mirror" THEN "remote_mirrors.create"
    ELSE IF script = "gitlab-repo" THEN "projects.create" ELSE "org.create_repo"

CreateEnabled(r) ==
    IF script = "github-repo" THEN self.gh_c_repo
    ELSE IF r = "repo" THEN self.gl_c_repo ELSE self.gl_c_mirr

\* C1: in gitlab-repo and github-repo, a resource that its locator found is
\* never the subject of a create call, whatever the create-enabled flag and
\* the dry-run flag are.
C1_FoundIsNotCreated ==
    script \in RepoScripts =>
        \A r \in loc.found : Count(CreateOp(r)) = 0

\* C1: a run ends with the project found by the locator while creation is
\* enabled and dry-run is off, so that only its presence holds the create back.
C1_Witness ==
    /\ script = "gitlab-repo" /\ pc = "done"
    /\ loc.found = {"repo", "mirror"}
    /\ Truthy(self.gl_c_repo) /\ Truthy(self.gl_c_mirr) /\ ~Truthy(self.dry_run)
    /\ Count("projects.create") = 0 /\ Count("remote_mirrors.create") = 0

\* C2, as claimed, for the runs that reach their end: a create call for a
\* resource is issued if and only if the resource was not found, its creation
\* is enabled and dry-run is false.
C2_CreateIffAbsentEnabledLive ==
    (script \in RepoScripts /\ pc = "done") =>
        \A r \in Resources :
            Count(CreateOp(r)) >= 1
                <=> (r \in loc.absent /\ Truthy(CreateEnabled(r)) /\ ~Truthy(self.dry_run))

\* the run ended inside the group search that precedes projects.create
GroupSearchEndedRun ==
    /\ pc = "crashed" /\ calls # <<>>
    /\ calls[Len(calls)].op = "groups.list"

\* C2, amended: the project or GitHub repository gets a create call iff it
\* was not found, creation is enabled (not false, not unset) and dry-run is
\* false -- for the GitLab project provided the group search before the call
\* returned a group; the mirror gets one iff the project exists by then
\* (found or just created), the mirror was not found, its creation is enabled
\* and dry-run is false; no resource gets more than one create call.
C2_CreateIffDecided ==
    (script \in RepoScripts /\ Constructed) =>
        /\ Count(CreateOp("repo")) >= 1
              <=> /\ "repo" \in loc.absent
                  /\ CreateEnabled("repo") = "True"
                  /\ self.dry_run # "True"
                  /\ ~GroupSearchEndedRun
        /\ script = "gitlab-repo" =>
              (Count("remote_mirrors.create") >= 1
                  <=> /\ "mirror" \in loc.absent
                      /\ loc.repo # 0
                      /\ self.gl_c_mirr = "True"
                      /\ self.dry_run # "True")
        /\ \A r \in Resources : Count(CreateOp(r)) <= 1

\* C2: a run created the project and then the mirror, with dry-run unset.
C2_Witness ==
    /\ script = "gitlab-repo" /\ pc = "done"
    /\ loc.created = {"repo", "mirror"}
    /\ self.dry_run = "None"
    /\ Count("projects.create") = 1 /\ Count("remote_mirrors.create") = 1

\* the positions of the notes of a merge request that contain the marker
MarkerNotes(ns, identifier) ==
    {i \in 1..Len(ns) : Contains(ns[i].body, marker(identifier))}

\* this run and the one before it both called update_or_create_comment with
\* the same identifier
UpsertTwice ==
    /\ script = "mr_comment" /\ pc = "done" /\ history # <<>>
    /\ ~Falsy(args.identifier)
    /\ history[1].args.identifier = args.identifier

\* C3: after update_or_create_comment(body1, id) and then
\* update_or_create_comment(body2, id) on a merge request whose notes did not
\* hold the marker, both reporting success, exactly one note contains
\* marker(id), and its body is marker(id) followed by body2.
C3_UpsertTwiceLeavesOneNote ==
    ( /\ UpsertTwice
      /\ history[1].exitCode = "0" /\ exitCode = "0"
      /\ MarkerNotes(history[1].before[self.mr_iid], args.identifier) = {} )
    => LET ns == notes[self.mr_iid]
           hit == MarkerNotes(ns, args.identifier)
       IN /\ Cardinality(hit) = 1
          /\ \A i \in hit : ns[i].body = comment_with_id(args.comment, args.identifier)

\* C4: when a request of the run failed or a required environment variable
\* is missing, mr_comment exits with code 1.
C4_FailureExitsOne ==
    (script = "mr_comment" /\ pc = "done" /\ (loc.failed # {} \/ error = "ValueError"))
        => exitCode = "1"

\* the actions the claim names (the removal of a file aside)
DryRunForbidden ==
    {"projects.create", "remote_mirrors.create", "org.create_repo",
     "branch.edit_protection", "git commit", "git remote add", "git push",
     "git filter-branch", "git filter-repo"}

\* C5: with dry-run set no script creates a repository or mirror, edits a
\* branch protection, commits, adds a remote, pushes or filters the history.
C5_DryRunChangesNothing ==
    Truthy(args.dry_run) => \A i \in 1..Len(calls) : calls[i].op \notin DryRunForbidden

\* C6: a create flag given on the command line is the value used, whatever
\* the config file says.
C6_ExplicitArgumentWins ==
    (script \in RepoScripts /\ Constructed) =>
        /\ args.create_repo # "None" => CreateEnabled("repo") = args.create_repo
        /\ (script = "gitlab-repo" /\ args.create_mirror # "None")
              => self.gl_c_mirr = args.create_mirror

\* C7: when no merge request is open for the branch, the run writes no note
\* (no POST, no PUT, the notes stay as they were) and exits with code 1, in
\* post_comment and in update_or_create_comment alike.
C7_NoTargetIsFailure ==
    (script = "mr_comment" /\ mrOpen = <<>>) =>
        /\ Count("notes.post") = 0 /\ Count("notes.put") = 0
        /\ notes = loc.before
        /\ pc = "done" => exitCode = "1"

\* C7: a post_comment run and then an update_or_create_comment run, each
\* answered with an empty list of merge requests, both ended with code 1.
C7_Witness ==
    /\ script = "mr_comment" /\ pc = "done" /\ mrOpen = <<>> /\ history # <<>>
    /\ Falsy(history[1].args.identifier) /\ history[1].failed = {}
    /\ history[1].exitCode = "1"
    /\ ~Falsy(args.identifier) /\ loc.failed = {}
    /\ Count("merge_requests.get") >= 1
    /\ exitCode = "1"

\* C8: a locator that reports absent has left no match anywhere in the
\* listing: project by name, GitHub repository by name, mirror by URL, note by
\* marker.
C8_LocatorsExhaustive ==
    /\ (script = "gitlab-repo" /\ pc = "repo_step" /\ "repo" \notin loc.found) =>
          \A i \in 1..Len(glProjects) : glProjects[i].name # self.gitlab_sync_repo_name
    /\ (script = "github-repo" /\ pc = "repo_step" /\ "repo" \notin loc.found) =>
          \A i \in 1..Len(ghRepos) : ghRepos[i].name # self.github_repo_name
    /\ (script = "gitlab-repo" /\ pc = "mirror_step" /\ "mirror" \in loc.located
          /\ "mirror" \notin loc.found) =>
          \A i \in 1..Len(Project(loc.repo).mirrors) :
              Project(loc.repo).mirrors[i] # self.gh_r_url_mask
    /\ (script = "mr_comment" /\ pc = "post_mr" /\ ~Falsy(args.identifier)
          /\ self.mr_iid # 0 /\ "notes.get" \notin loc.failed) =>
          MarkerNotes(notes[self.mr_iid], args.identifier) = {}

\* the value of a setting with an environment fallback
Resolved(name) == IF args[name] # None THEN args[name] ELSE env[name]

\* the credential values of the run
Secrets ==
    IF script = "gitlab-repo"
    THEN {Resolved("GITHUB_USER"), Resolved("GITHUB_PASS"), Resolved("CI_SERVER_TOKEN")}
    ELSE {Resolved("CI_SERVER_TOKEN")}

\* C9, as claimed: no line printed by gitlab-repo or repo_sync contains a
\* credential value.
C9_NoCredentialInOutput ==
    (script \in {"gitlab-repo", "repo_sync"}) =>
        \A i \in 1..Len(printed) : \A s \in Secrets : ~Contains(printed[i], s)

\* the text a line may be made of without reading a credential: the name of
\* the repository, of the synced repository and of the listed projects, the
\* group, the server URL, the paths and the two masked URLs
SyncName ==
    IF "gitlab_sync_repo_name" \in DOMAIN cfgFile.content
    THEN cfgFile.content["gitlab_sync_repo_name"]
    ELSE cfgFile.content["repo_local_name"]

PublicValues ==
    {cfgFile.content["repo_local_name"], SyncName, Resolved("GL_DEFAULT_GROUP"),
     Resolved("CI_SERVER_URL"), args.repo_path, args.config_file, ScriptPath}

\* the URL of the GitHub repository and of the GitLab project as they are
\* shown, with fixed text where the credentials are
MaskedGithubUrl ==
    Concat(<< <<"h","t","t","p","s",":","/","/","*","*","*","*","*",":","*","*","*","*","*","@","g","i","t","h","u","b",".","c","o","m","/">>, Resolved("GITHUB_ORG"), <<"/">>,
              cfgFile.content["github_repo_name"], <<".","g","i","t">> >>)

MaskedGitlabUrl ==
    Concat(<< urlparse(Resolved("CI_SERVER_URL")).scheme, <<":","/","/","o","a","u","t","h","2",":","*","*","*","*","*","*","@">>,
              urlparse(Resolved("CI_SERVER_URL")).netloc, <<"/">>,
              Resolved("GL_DEFAULT_GROUP"), <<"/">>, SyncName, <<".","g","i","t">> >>)

PublicLabels ==
    { <<"G","i","t","l","a","b"," ","r","e","p","o",":"," "," "," "," ">>, <<"G","i","t","L","a","b"," ","g","r","o","u","p",":"," "," "," ">>, <<"R","e","p","o"," ","l","o","c","a","t","e","d",":"," "," "," ">>,
      <<"C","o","n","f","i","g"," ","f","i","l","e",":"," "," "," "," ">>, <<"R","u","n","n","i","n","g"," ","f","r","o","m",":"," "," "," ">>, <<"S","e","r","v","e","r"," ","h","o","s","t",":"," "," "," "," ">>,
      <<"R","e","p","o","s","i","t","o","r","y",":"," "," "," "," ">>, <<"M","i","r","r","o","r"," ","i","n",":"," "," "," "," "," ">>, <<"\t","G","e","t"," ","r","e","p","o"," ">> }

FixedLines ==
    { <<"-","-","-","-","-","-","-","-","-","-","-","-","-","-","-","-","-","-","-","-","-","-","-","-","-","-","-","-","-","-","-","-","-","-","-","-","-","-","-","-","-","-","-","-","-","-","-","-","-","-","-">>, <<>>, <<"\t","\t","y">>,
      <<"\t","R","e","p","o"," ","c","r","e","a","t","e"," ","s","k","i","p","p","e","d",":"," ","d","r","y","-","r","u","n">>, <<"\t","R","e","p","o"," ","c","r","e","a","t","e"," ","s","k","i","p","p","e","d",":"," ","c","r","e","a","t","i","o","n"," ","d","i","s","a","b","l","e","d">>,
      <<"\t","R","e","p","o"," ","a","l","r","e","a","d","y"," ","e","x","i","s","t","s">>, <<"\t","M","i","r","r","o","r"," ","c","r","e","a","t","e"," ","s","k","i","p","p","e","d",":"," ","d","r","y","-","r","u","n">>,
      <<"\t","M","i","r","r","o","r"," ","c","r","e","a","t","e"," ","s","k","i","p","p","e","d",":"," ","c","r","e","a","t","i","o","n"," ","d","i","s","a","b","l","e","d">>, <<"\t","M","i","r","r","o","r"," ","a","l","r","e","a","d","y"," ","c","r","e","a","t","e","d">>,
      <<"\t","S","a","f","e"," ","s","p","a","c","e">>, <<"\t","s","t","a","t","u","s">>, <<"\t","s","e","t"," ","u","s","e","r">>, <<"\t","c","o","m","m","i","t">>,
      <<"\t","r","e","m","o","t","e"," ","a","d","d">>, <<"\t","p","u","s","h">> }

PublicLines ==
    FixedLines
    \cup {l \o v : l \in PublicLabels, v \in PublicValues}
    \cup {Concat(<< <<"\t","C","r","e","a","t","e"," ","r","e","p","o"," ">>, Resolved("GL_DEFAULT_GROUP"), <<" ","/"," ">>, SyncName >>)}
    \cup (IF script = "gitlab-repo"
          THEN { <<"\t","G","e","t"," ","r","e","p","o"," ","m","i","r","r","o","r"," ">> \o MaskedGithubUrl,
                 Concat(<< <<"\t","C","r","e","a","t","e"," ","m","i","r","r","o","r"," ">>, MaskedGithubUrl, <<" ","i","n"," ","r","e","p","o"," ">>, SyncName >>) }
          ELSE { <<"G","i","t"," ","u","r","l",":"," "," "," "," "," "," "," "," ">> \o MaskedGitlabUrl })

\* the calls that are given a URL with the credentials in it
CredentialCalls == {"remote_mirrors.create", "git fetch", "git remote add"}

\* C9, amended: what gitlab-repo and repo_sync print does not depend on the
\* credentials: every printed line is fixed text, or a label followed by
\* non-secret values (names, group, server URL, paths, the masked URL), so a
\* line contains a credential value only where that value already occurs in
\* this non-secret text; the URLs with the credentials go to the mirror
\* creation and to git fetch and git remote add only.
C9_OutputIsPublic ==
    (script \in {"gitlab-repo", "repo_sync"}) =>
        /\ LET public == PublicLines
           IN \A i \in 1..Len(printed) : printed[i] \in public
        /\ \A s \in Secrets \ {None} :
              (\A v \in PublicValues : ~Contains(v, s)) =>
                  \A i \in 1..Len(calls) :
                      Contains(calls[i].arg, s) => calls[i].op \in CredentialCalls

\* C9: gitlab-repo has printed the masked URL and created the mirror with the
\* URL that holds the password.
C9_Witness ==
    /\ script = "gitlab-repo" /\ pc = "done"
    /\ \E i \in 1..Len(printed) : Contains(printed[i], self.gh_r_url_mask)
    /\ \E i \in 1..Len(calls) :
          /\ calls[i].op = "remote_mirrors.create"
          /\ calls[i].arg = self.gh_r_url_final
          /\ Contains(calls[i].arg, Resolved("GITHUB_PASS"))
    /\ \A i \in 1..Len(printed) : ~Contains(printed[i], Resolved("GITHUB_PASS"))

\* C10: a run that fails on a missing required value has made no remote
\* call, started no subprocess and changed no file.
C10_ConfigErrorBeforeEffects ==
    error \in {"KeyError", "ValueError"} => (calls = <<>> /\ cfgFile.exists)


----------------------------------------------------------------------------
(* create_helm_diff_comment *)

\* main has built the helm diff comment
HelmBuilt == script = "mr_comment" /\ args.helm_diff /\ pc = "find_mr" /\ calls = <<>>

\* the comment for another diff, all else as in this call
HelmCommentFor(d) ==
    create_helm_diff_comment(
        args.added_lines, args.removed_lines, d,
        Or(args.branch_name, env["CI_COMMIT_REF_NAME"]),
        Or(args.pipeline_url, Or(env["CI_PIPELINE_URL"], <<>>)),
        Or(args.job_id, Or(env["CI_JOB_ID"], <<>>)),
        args.max_diff_size)

TruncationNotice == <<"d","i","f","f"," ","t","r","u","n","c","a","t","e","d">>

\* C11, as claimed: a diff longer than max_diff_size gives a comment with the
\* truncation notice whose length is max_diff_size plus a length that is the
\* same for every such diff; a diff of at most max_diff_size characters is in
\* the comment whole, without the notice.
C11_TruncationBounded ==
    HelmBuilt =>
        IF Len(args.diff_content) > args.max_diff_size
        THEN /\ Contains(args.comment, TruncationNotice)
             /\ \A d \in DiffContents :
                   Len(d) > args.max_diff_size
                       => Len(HelmCommentFor(d)) = Len(args.comment)
        ELSE /\ Contains(args.comment, args.diff_content)
             /\ ~Contains(args.comment, TruncationNotice)

\* the text of the notice around the size
NoticeText ==
    <<"\n","\n",".",".","."," ","(","d","i","f","f"," ","t","r","u","n","c","a","t","e","d"," ","-"," ","t","o","t","a","l"," ","s","i","z","e",":"," ">>
        \o <<" ","c","h","a","r","a","c","t","e","r","s",")","\n","@"," ","*","*","F","u","l","l"," ","d","i","f","f"," ","a","v","a","i","l","a","b","l","e"," ","i","n"," ","p","i","p","e","l","i","n","e"," ","a","r","t","i","f","a","c","t","s","*","*">>

\* C11, amended.  With added_lines and removed_lines both 0 the comment is the
\* no-differences text: it holds neither the diff nor a notice and is the same
\* for every diff.  Otherwise a diff longer than max_diff_size gives a comment
\* with the truncation notice, which depends on the diff through its first
\* max_diff_size characters and its length only, and whose length is the
\* length of the comment for an empty diff plus max_diff_size, the length of
\* the notice text and the number of digits of the diff's length; a diff of at
\* most max_diff_size characters is in the comment whole, without the notice.
C11_TruncationByDigits ==
    HelmBuilt =>
        IF args.added_lines = 0 /\ args.removed_lines = 0
        THEN /\ ~Contains(args.comment, TruncationNotice)
             /\ ~Contains(args.comment, <<"'","'","'","d","i","f","f">>)
             /\ \A d \in DiffContents : HelmCommentFor(d) = args.comment
        ELSE IF Len(args.diff_content) > args.max_diff_size
        THEN /\ Contains(args.comment, TruncationNotice)
             /\ Contains(args.comment,
                         <<"'","'","'","d","i","f","f","\n">> \o SubSeq(args.diff_content, 1, args.max_diff_size)
                             \o <<"\n","\n",".",".","."," ","(","d","i","f","f"," ","t","r","u","n","c","a","t","e","d">>)
             /\ Len(args.comment) =
                    Len(HelmCommentFor(<<>>)) + args.max_diff_size + Len(NoticeText)
                        + Len(str(Len(args.diff_content)))
             /\ \A d \in DiffContents :
                   ( /\ Len(d) = Len(args.diff_content)
                     /\ SubSeq(d, 1, args.max_diff_size)
                            = SubSeq(args.diff_content, 1, args.max_diff_size) )
                       => HelmCommentFor(d) = args.comment
        ELSE /\ Contains(args.comment, <<"'","'","'","d","i","f","f","\n">> \o args.diff_content \o <<"\n","'","'","'">>)
             /\ ~Contains(args.comment, TruncationNotice)

\* C11: a diff of ten characters or more was cut to max_diff_size characters,
\* and the notice gives its size in two digits.
C11_Witness ==
    /\ HelmBuilt
    /\ args.added_lines > 0
    /\ args.max_diff_size > 0
    /\ Len(args.diff_content) > 9
    /\ Contains(args.comment, <<"t","o","t","a","l"," ","s","i","z","e",":"," ">> \o str(Len(args.diff_content)))
    /\ ~Contains(args.comment, args.diff_content)


----------------------------------------------------------------------------
(* gitlab-repo run again *)

\* this run of gitlab-repo follows one that created something
GL_Again == script = "gitlab-repo" /\ history # <<>>

\* C12: a run of gitlab-repo that follows a run which created the project, or
\* the project and the mirror, finds what that run created and issues no
\* create call for it: a create call of the second run is for a piece the
\* first run did not create, and after a first run that created both there
\* is none.  The mirror, created with the URL that holds the credentials, is
\* found by the masked URL.
C12_RerunSkipsCreated ==
    GL_Again =>
        /\ \A r \in history[1].created :
              /\ Count(CreateOp(r)) = 0
              /\ r \in loc.located => r \in loc.found
        /\ \A r \in loc.created : r \notin history[1].created
        /\ history[1].created = {"repo", "mirror"} => loc.created = {}

\* C12: the first run created the project and failed to create the mirror;
\* the second run found the project, created the mirror alone and ended.
C12_Witness ==
    /\ GL_Again /\ pc = "done"
    /\ history[1].created = {"repo"} /\ history[1].error = "GitlabError"
    /\ loc.found = {"repo"} /\ loc.created = {"mirror"}
    /\ Count("projects.create") = 0 /\ Count("remote_mirrors.create") = 1


----------------------------------------------------------------------------
(* update_or_create_comment: the note that is found *)

\* _find_existing_note has returned the id of a note
NoteFound == script = "mr_comment" /\ loc.existing_note_id # 0

\* C13: when the notes listing that update_or_create_comment retrieved holds
\* a note with marker(identifier), the run makes one update call for that
\* note and no create call; a successful update replaces the whole body of
\* that note by the tagged body and leaves every other note as it was; a
\* failed update leaves all notes as they were, is followed by no create
\* call and ends the run with exit code 1.
C13_FoundNoteIsOverwritten ==
    NoteFound =>
        LET iid == self.mr_iid
            old == loc.before[iid]
        IN /\ \E i \in 1..Len(old) :
                 /\ old[i].id = loc.existing_note_id
                 /\ Contains(old[i].body, marker(args.identifier))
           /\ Count("notes.post") = 0
           /\ Count("notes.put") = IF pc = "done" THEN 1 ELSE 0
           /\ \A other \in DOMAIN notes \ {iid} : notes[other] = loc.before[other]
           /\ IF pc = "done" /\ "notes.put" \notin loc.failed
              THEN /\ exitCode = "0"
                   /\ notes[iid] =
                        [i \in 1..Len(old) |->
                            IF old[i].id = loc.existing_note_id
                            THEN [id |-> old[i].id,
                                  body |-> comment_with_id(args.comment, args.identifier)]
                            ELSE old[i]]
              ELSE /\ notes[iid] = old
                   /\ pc = "done" => exitCode = "1"

\* C13: the newer of two notes held the marker and another body; the update
\* succeeded, the other note is as it was.
C13_Witness ==
    /\ NoteFound /\ pc = "done" /\ exitCode = "0"
    /\ Len(notes[self.mr_iid]) = 2
    /\ notes[self.mr_iid][1].body = comment_with_id(args.comment, args.identifier)
    /\ loc.before[self.mr_iid][1].body # notes[self.mr_iid][1].body
    /\ notes[self.mr_iid][2] = loc.before[self.mr_iid][2]
    /\ Count("notes.put") = 1


----------------------------------------------------------------------------
(* update_or_create_comment: the marker *)

\* how many times a marker of any identifier occurs in a text
MarkerCount(text) ==
    Cardinality({<<id, i>> \in MC_Identifiers \X (1..Len(text)) :
                    /\ i + Len(marker(id)) - 1 <= Len(text)
                    /\ SubSeq(text, i, i + Len(marker(id)) - 1) = marker(id)})

\* C14: every note that update_or_create_comment writes holds exactly one
\* marker; and a run for identifier A that follows a run for another
\* identifier B on a merge request without notes updates no note.
C14_OneMarkerNoCollision ==
    (script = "mr_comment" /\ ~Falsy(args.identifier)) =>
        /\ \A i \in 1..Len(calls) :
              calls[i].op \in {"notes.post", "notes.put"} => MarkerCount(calls[i].arg) = 1
        /\ ( /\ history # <<>>
             /\ ~Falsy(history[1].args.identifier)
             /\ history[1].args.identifier # args.identifier
             /\ history[1].before[1] = <<>> )
               => Count("notes.put") = 0


----------------------------------------------------------------------------
(* repo_sync: the git processes *)

\* C15: in repo_sync a git step starts only after the step before it has
\* finished, so at most one git process is running at any time, and git
\* push is never running together with git commit or git remote add.
C15_StepsAreGated ==
    script = "repo_sync" =>
        /\ Cardinality(running) <= 1
        /\ "git push" \in running =>
              ("git commit" \notin running /\ "git remote add" \notin running)


----------------------------------------------------------------------------
(* the config file *)

\* C16: a run of a script that takes a config file has read the file once
\* when it ends, and the file is still there.
C16_ConfigReadOnceAndKept ==
    (script \in {"gitlab-repo", "github-repo", "repo_sync", "clean_repo"}
        /\ pc \in {"done", "crashed"})
        => (cfgFile.reads = 1 /\ cfgFile.exists)


\* C17: in a run of mr_comment, a lookup that answered with merge requests
\* chose the first of them and cached it; when it answered with more than
\* one, the warning was printed and the run went on to a notes request; no
\* process has more than one such lookup; and the notes listing and the
\* note write of the run went to the chosen merge request and no other.
C17_FirstMrChosenAndKept ==
    script = "mr_comment" =>
        /\ Len(loc.lookups) <= 1
        /\ loc.targets # {} => Len(loc.lookups) = 1
        /\ \A i \in 1..Len(loc.lookups) :
              /\ self.mr_iid = loc.lookups[i][1]
              /\ loc.targets \subseteq {loc.lookups[i][1]}
              /\ Len(loc.lookups[i]) > 1 =>
                    /\ \E k \in 1..Len(printed) :
                          Contains(printed[k], <<"u","s","i","n","g"," ","t","h","e"," ","f","i","r","s","t"," ","o","n","e">>)
                    /\ pc = "done" => loc.targets # {}

\* C17: the lookup answered with two merge requests, the run listed the
\* notes of the first and wrote to it, and ended with success
C17_Witness ==
    /\ script = "mr_comment" /\ pc = "done" /\ exitCode = "0"
    /\ loc.lookups = << <<1, 2>> >>
    /\ Count("notes.get") = 1
    /\ loc.targets = {1}
    /\ notes[1] # loc.before[1]


----------------------------------------------------------------------------
(* update_or_create_comment: the search that fails *)

\* C18: a run of mr_comment with an identifier posts a new note only after
\* it retrieved the notes listing; no request of the search for the merge
\* request or for its notes has failed in a run that posts.
C18_PostOnlyAfterListing ==
    (script = "mr_comment" /\ ~Falsy(args.identifier) /\ Count("notes.post") >= 1) =>
        /\ Count("notes.get") = 1
        /\ loc.failed \cap {"merge_requests.get", "notes.get"} = {}

----------------------------------------------------------------------------
(* github-repo: branch protection *)

\* C19: github-repo reaches the branch-protection step only with a
\* repository handle, found or just created; a run whose repository is
\* absent and whose creation is skipped does not end with the error of
\* calling get_branch on no repository.
C19_ProtectionNeedsRepo ==
    script = "github-repo" =>
        /\ pc = "protect" => loc.repo # 0
        /\ (pc \in {"done", "crashed"} /\ "repo" \in loc.absent /\ loc.created = {})
              => (pc = "done" /\ error = "")

----------------------------------------------------------------------------
(* update_or_create_comment: two processes at once *)

\* both processes have ended
BothDone ==
    /\ script = "mr_comment" /\ running # {}
    /\ pc = "done" /\ \A other \in running : other.pc = "done"

\* C20: when two mr_comment processes with the same identifier have run
\* update_or_create_comment on a merge request that held no note with the
\* marker, and no request of either has failed, the merge request holds at
\* most one note with the marker, however their requests interleaved.
C20_ConcurrentUpsertOneNote ==
    ( /\ BothDone
      /\ loc.failed = {}
      /\ \A other \in running :
            other.loc.failed = {} /\ other.args.identifier = args.identifier
      /\ MarkerNotes(loc.before[1], args.identifier) = {} )
    => \A iid \in DOMAIN notes :
          Cardinality(MarkerNotes(notes[iid], args.identifier)) <= 1
====
